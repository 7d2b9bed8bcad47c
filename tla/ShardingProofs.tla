--------------------------- MODULE ShardingProofs ---------------------------
(***************************************************************************)
(* Proofs about Sharding, for every kind of layer, any sizes, any number   *)
(* of ranks and shards: the slices, where the shards of a parameter are,   *)
(* what each rank has loaded, and with it every property of the module.    *)
(***************************************************************************)
EXTENDS Sharding, FoldProofs

-----------------------------------------------------------------------------
(* Arithmetic.                                                             *)

LEMMA DivMod ==
  ASSUME NEW n \in Nat, NEW k \in Nat \ {0}
  PROVE  /\ n \div k \in Nat
         /\ n % k \in 0 .. k - 1
         /\ n = k * (n \div k) + (n % k)
  BY SMT

\* Division is determined by its remainder.
LEMMA DivUnique ==
  ASSUME NEW k \in Nat \ {0}, NEW q \in Nat, NEW r \in 0 .. k - 1
  PROVE  (q * k + r) \div k = q
<1> DEFINE n == q * k + r
<1>1. n \in Nat  BY SMT
<1> QED  BY <1>1, SMT

LEMMA CeilExact ==
  ASSUME NEW tp \in Nat \ {0}, NEW length \in Nat
  PROVE  CeilDiv(length * tp, tp) = length
<1>1. tp - 1 \in 0 .. tp - 1  OBVIOUS
<1>2. length * tp \in Nat  OBVIOUS
<1>3. CeilDiv(length * tp, tp) = (length * tp + (tp - 1)) \div tp
  BY <1>2 DEF CeilDiv
<1> QED  BY <1>1, <1>3, DivUnique

LEMMA CeilUneven ==
  ASSUME NEW size \in Nat, NEW tp \in Nat \ {0}, size % tp # 0
  PROVE  CeilDiv(size, tp) = size \div tp + 1
<1> DEFINE q == size \div tp
           r == size % tp
<1>1. q \in Nat /\ r \in 1 .. tp - 1 /\ size = tp * q + r  BY DivMod
<1> HIDE DEF q, r
<1>2. size + tp - 1 = (q + 1) * tp + (r - 1)  BY <1>1
<1>3. r - 1 \in 0 .. tp - 1 /\ q + 1 \in Nat  BY <1>1
<1>4. CeilDiv(size, tp) = q + 1  BY <1>2, <1>3, DivUnique DEF CeilDiv
<1> QED  BY <1>4 DEF q

-----------------------------------------------------------------------------
(* Even slices.                                                            *)

(***************************************************************************)
(* A dimension that the number of ranks divides: chunk and narrow take the *)
(* same slice, and every row is in the slice of exactly one rank (weight   *)
(* loaders of the divided layers, and the ranges of token ids that the     *)
(* ranks of VocabParallelEmbedding do not mask out).                       *)
(***************************************************************************)
THEOREM SlicesPartition ==
  ASSUME NEW tp \in Nat \ {0}, NEW length \in Nat
  PROVE  /\ \A r \in 0 .. tp - 1 :
              /\ SliceOf(length, r) \subseteq 0 .. length * tp - 1
              /\ ChunkOf(length * tp, tp, r) = SliceOf(length, r)
         /\ \A i \in 0 .. length * tp - 1 :
              /\ \E r \in 0 .. tp - 1 : i \in SliceOf(length, r)
              /\ \A r, s \in 0 .. tp - 1 :
                   i \in SliceOf(length, r) /\ i \in SliceOf(length, s) => r = s
<1> DEFINE size == length * tp
<1>1. size \in Nat  OBVIOUS
<1>2. ASSUME NEW r \in 0 .. tp - 1
      PROVE  SliceOf(length, r) \subseteq 0 .. size - 1
  <2>1. r * length \in Nat /\ (r + 1) * length = r * length + length  OBVIOUS
  <2>2. (r + 1) * length <= tp * length  OBVIOUS
  <2>3. tp * length = size  OBVIOUS
  <2> HIDE DEF size
  <2> QED  BY <1>1, <2>1, <2>2, <2>3 DEF SliceOf, Interval
<1>3. ASSUME NEW r \in 0 .. tp - 1
      PROVE  ChunkOf(size, tp, r) = SliceOf(length, r)
  <2>1. ChunkOf(size, tp, r) = {i \in SliceOf(length, r) : i < size}
    BY CeilExact DEF ChunkOf, SliceOf
  <2>2. \A i \in SliceOf(length, r) : i < size
    <3> HIDE DEF size
    <3> QED  BY <1>1, <1>2
  <2> QED  BY <2>1, <2>2
<1>4. ASSUME NEW i \in 0 .. size - 1
      PROVE  \E r \in 0 .. tp - 1 : i \in SliceOf(length, r)
  <2> DEFINE q == i \div length
  <2>1. length \in Nat \ {0} /\ i \in Nat  OBVIOUS
  <2>2. q \in Nat /\ i % length \in 0 .. length - 1 /\ i = length * q + (i % length)
    BY <2>1, DivMod
  <2> HIDE DEF q
  <2>3. q < tp
    <3>1. SUFFICES ASSUME q >= tp  PROVE FALSE  BY <2>2
    <3>2. length * q >= length * tp  BY <2>1, <2>2, <3>1
    <3> QED  BY <2>1, <2>2, <3>2
  <2>4. i \in SliceOf(length, q)
    <3>1. q * length \in Nat /\ q * length = length * q  BY <2>1, <2>2
    <3> QED  BY <2>1, <2>2, <3>1 DEF SliceOf, Interval
  <2> QED  BY <2>2, <2>3, <2>4
<1>5. ASSUME NEW i \in 0 .. size - 1, NEW r \in 0 .. tp - 1, NEW s \in 0 .. tp - 1,
             i \in SliceOf(length, r), i \in SliceOf(length, s)
      PROVE  r = s
  <2>1. ASSUME NEW t \in 0 .. tp - 1, i \in SliceOf(length, t)  PROVE  i \div length = t
    <3>1. t * length \in Nat  OBVIOUS
    <3>2. i - t * length \in 0 .. length - 1  BY <2>1, <3>1 DEF SliceOf, Interval
    <3>3. i = t * length + (i - t * length)  BY <3>1
    <3>4. length \in Nat \ {0}  BY <3>2
    <3> QED  BY <3>2, <3>3, <3>4, DivUnique
  <2> QED  BY <1>5, <2>1
<1> QED  BY <1>2, <1>3, <1>4, <1>5

-----------------------------------------------------------------------------
(* Uneven slices.                                                          *)

(***************************************************************************)
(* MergedColumnParallelLinear asserts only that the sum of its sizes can   *)
(* be divided.  A weight that cannot is never loaded by all ranks: copy_   *)
(* raises on rank 0, whose chunk is one row too long, or, if there are     *)
(* fewer rows than ranks, the last rank has no chunk.                      *)
(***************************************************************************)
THEOREM UnevenNeverLoads ==
  ASSUME NEW size \in Nat, NEW tp \in Nat \ {0}, size % tp # 0
  PROVE  \E r \in 0 .. tp - 1 : ~Copies(ChunkOf(size, tp, r), size \div tp)
<1> DEFINE q == size \div tp
<1>1. q \in Nat /\ size = tp * q + (size % tp) /\ size % tp \in 1 .. tp - 1
  BY DivMod
<1>2. CeilDiv(size, tp) = q + 1  BY CeilUneven
<1> HIDE DEF q
<1>3. CASE q = 0
  <2>1. size < tp /\ CeilDiv(size, tp) = 1  BY <1>1, <1>2, <1>3
  <2>2. ChunkOf(size, tp, tp - 1) = {}  BY <2>1 DEF ChunkOf, Interval
  <2> QED  BY <2>2 DEF Copies
<1>4. CASE q # 0
  <2>1. tp * q >= q  BY <1>1
  <2>2. size >= q + 1  BY <1>1, <2>1
  <2>3. ChunkOf(size, tp, 0) = 0 .. q  BY <1>1, <1>2, <2>2 DEF ChunkOf, Interval
  <2>4. Cardinality(0 .. q) = q + 1  BY <1>1, FS_Interval
  <2>5. ~Copies(ChunkOf(size, tp, 0), q)  BY <1>1, <1>4, <2>3, <2>4 DEF Copies
  <2> QED  BY <2>5 DEF q
<1> QED  BY <1>3, <1>4

-----------------------------------------------------------------------------
(* Heads.                                                                  *)

(***************************************************************************)
(* With `group' query heads to a key head and kv key heads to a rank, the  *)
(* key head of the k-th query head of a rank is on that rank, at the place *)
(* where grouped attention looks for it (QKVParallelLinear).               *)
(***************************************************************************)
LEMMA GroupsStayTogether ==
  ASSUME NEW group \in Nat \ {0}, NEW kv \in Nat, NEW r \in Nat,
         NEW k \in 0 .. kv * group - 1
  PROVE  /\ k \div group \in 0 .. kv - 1
         /\ (r * (kv * group) + k) \div group = r * kv + k \div group
<1> DEFINE q == k \div group
           m == k % group
<1>1. kv * group \in Nat /\ k \in Nat  OBVIOUS
<1>2. q \in Nat /\ m \in 0 .. group - 1 /\ k = group * q + m  BY <1>1, DivMod
<1> HIDE DEF q, m
<1>3. q < kv
  <2>1. SUFFICES ASSUME q >= kv  PROVE FALSE  BY <1>2
  <2>2. group * q >= kv * group  BY <1>2, <2>1
  <2> QED  BY <1>1, <1>2, <2>2
<1>4. r * (kv * group) + k = (r * kv + q) * group + m  BY <1>1, <1>2
<1>5. r * kv + q \in Nat  BY <1>2
<1>6. (r * (kv * group) + k) \div group = r * kv + q  BY <1>2, <1>4, <1>5, DivUnique
<1> QED  BY <1>2, <1>3, <1>6 DEF q

-----------------------------------------------------------------------------
(* Sums of sizes.                                                          *)

\* Rounding down a sum loses at least what rounding down its terms loses.
LEMMA DivAdds ==
  ASSUME NEW a \in Nat, NEW b \in Nat, NEW k \in Nat \ {0}
  PROVE  a \div k \in Nat /\ b \div k \in Nat /\ a \div k + b \div k <= (a + b) \div k
<1> DEFINE p == a \div k
           q == b \div k
           m == (a + b) \div k
<1>1. p \in Nat /\ a = k * p + (a % k) /\ a % k \in 0 .. k - 1
  BY DivMod
<1>2. q \in Nat /\ b = k * q + (b % k) /\ b % k \in 0 .. k - 1
  BY DivMod
<1>3. m \in Nat /\ a + b = k * m + ((a + b) % k) /\ (a + b) % k \in 0 .. k - 1
  <2>1. a + b \in Nat
    OBVIOUS
  <2> QED
    BY <2>1, DivMod
<1> HIDE DEF p, q, m
<1>4. p + q <= m
  <2>1. SUFFICES ASSUME p + q >= m + 1 PROVE FALSE
    BY <1>1, <1>2, <1>3
  <2>2. k * (p + q) >= k * (m + 1)
    BY <1>1, <1>2, <1>3, <2>1
  <2>3. k * (p + q) = k * p + k * q /\ k * (m + 1) = k * m + k
    BY <1>1, <1>2, <1>3
  <2>4. k * p \in Nat /\ k * q \in Nat /\ k * m \in Nat
    BY <1>1, <1>2, <1>3
  <2> QED
    BY <1>1, <1>2, <1>3, <2>2, <2>3, <2>4
<1> QED
  BY <1>1, <1>2, <1>4 DEF p, q, m

\* It loses nothing if one of the two can be divided.
LEMMA DivAddsEven ==
  ASSUME NEW a \in Nat, NEW b \in Nat, NEW k \in Nat \ {0}, b % k = 0
  PROVE  /\ b = k * (b \div k) /\ b \div k \in Nat
         /\ (a + b) \div k = a \div k + b \div k
<1> DEFINE p == a \div k
           q == b \div k
<1>1. p \in Nat /\ a = k * p + (a % k) /\ a % k \in 0 .. k - 1
  BY DivMod
<1>2. q \in Nat /\ b = k * q
  BY DivMod
<1> HIDE DEF p, q
<1>3. a + b = (p + q) * k + (a % k) /\ p + q \in Nat
  BY <1>1, <1>2
<1>4. (a + b) \div k = p + q
  <2>1. PICK m \in Nat, r \in 0 .. k - 1 : m = p + q /\ r = a % k /\ a + b = m * k + r
    BY <1>1, <1>3
  <2>2. (m * k + r) \div k = m
    BY DivUnique
  <2> QED
    BY <2>1, <2>2
<1> QED
  BY <1>2, <1>4 DEF p, q

LEMMA ModAddsEven ==
  ASSUME NEW a \in Nat, NEW b \in Nat, NEW k \in Nat \ {0}, a % k = 0, b % k = 0
  PROVE  (a + b) % k = 0
<1> DEFINE p == a \div k
           q == b \div k
<1>1. p \in Nat /\ a = k * p
  BY DivMod
<1>5. q \in Nat /\ b = k * q
  BY DivMod
<1> HIDE DEF p, q
<1>2. a + b = (p + q) * k + 0
  BY <1>1, <1>5
<1>3. PICK m \in Nat : m = p + q
  BY <1>1, <1>5
<1>4. (m * k + 0) % k = 0
  BY DivUnique
<1> QED
  BY <1>2, <1>3, <1>4

\* The configuration that is loaded.
LEMMA ConfigType ==
  ASSUME config \in Configs
  PROVE  /\ tp_size \in Nat \ {0} /\ config.head_size \in Nat \ {0}
         /\ Len(sizes) \in Nat \ {0} /\ Shards = 1 .. Len(sizes)
         /\ \A s \in Shards : sizes[s] \in Nat \ {0}
         /\ ~Packed => Shards = {1}
         /\ config.kind = "qkv" =>
              /\ Shards = 1 .. 3
              /\ sizes[2] = sizes[3]
              /\ \A s \in Shards : sizes[s] % config.head_size = 0
<1>1. /\ tp_size \in Nat \ {0} /\ config.head_size \in Nat \ {0}
      /\ sizes \in Seq(Nat \ {0}) /\ sizes # <<>>
      /\ ~Packed => Len(sizes) = 1
      /\ config.kind = "qkv" =>
           /\ Len(sizes) = 3
           /\ sizes[2] = sizes[3]
           /\ \A s \in 1 .. 3 : sizes[s] % config.head_size = 0
  BY ShardingAssumption DEF tp_size, sizes, Packed
<1>2. Len(sizes) \in Nat \ {0} /\ DOMAIN sizes = 1 .. Len(sizes)
  BY <1>1
<1>3. \A s \in Shards : sizes[s] \in Nat \ {0}
  BY <1>1, <1>2 DEF Shards
<1>4. Shards = 1 .. Len(sizes)
  BY <1>2 DEF Shards
<1>5. ~Packed => Shards = {1}
  <2>1. 1 .. 1 = {1}
    OBVIOUS
  <2> QED
    BY <1>1, <1>4, <2>1
<1> QED
  BY <1>1, <1>2, <1>3, <1>4, <1>5

LEMMA SumUpToIs ==
  ASSUME NEW n \in Nat
  PROVE  SumUpTo(n) = SumOf(sizes, 1 .. n)
<1>1. IsFiniteSet(1 .. n)
  BY FS_Interval
<1> QED
  BY <1>1, MapThenSumSetIs DEF SumUpTo

LEMMA SumSteps ==
  ASSUME config \in Configs
  PROVE  /\ SumUpTo(0) = 0
         /\ \A n \in 0 .. Len(sizes) : SumUpTo(n) \in Nat
         /\ \A n \in 1 .. Len(sizes) : SumUpTo(n) = SumUpTo(n - 1) + sizes[n]
<1> DEFINE last == Len(sizes)
<1>0. last \in Nat /\ \A s \in 1 .. last : sizes[s] \in Nat
  BY ConfigType
<1> HIDE DEF last
<1>1. SumUpTo(0) = 0
  <2>1. 1 .. 0 = {}
    OBVIOUS
  <2> QED
    BY <2>1, SumUpToIs, SumOfEmpty
<1>2. ASSUME NEW n \in 1 .. last
      PROVE  /\ SumUpTo(n) = SumUpTo(n - 1) + sizes[n]
  <2>1. PICK m \in Nat : m = n - 1
    BY <1>0, <1>2
  <2>2. IsFiniteSet(1 .. m) /\ n \notin 1 .. m /\ 1 .. n = (1 .. m) \cup {n}
    <3>1. IsFiniteSet(1 .. m)
      BY FS_Interval
    <3>2. n = m + 1 /\ n \notin 1 .. m /\ 1 .. m + 1 = (1 .. m) \cup {m + 1}
      BY <1>0, <2>1
    <3> QED
      BY <3>1, <3>2
  <2>3. \A x \in (1 .. m) \cup {n} : sizes[x] \in Int
    BY <1>0, <1>2, <2>1
  <2>4. SumOf(sizes, (1 .. m) \cup {n}) = SumOf(sizes, 1 .. m) + sizes[n]
    <3>1. PICK S : S = 1 .. m
      OBVIOUS
    <3>2. IsFiniteSet(S) /\ n \notin S /\ \A x \in S \cup {n} : sizes[x] \in Int
      BY <2>2, <2>3, <3>1
    <3>3. SumOf(sizes, S \cup {n}) = SumOf(sizes, S) + sizes[n]
      BY <3>2, SumOfAdds
    <3> QED
      BY <3>1, <3>3
  <2>5. SumUpTo(m) = SumOf(sizes, 1 .. m)
    BY SumUpToIs
  <2>6. SumUpTo(n) = SumOf(sizes, 1 .. n)
    BY <1>0, SumUpToIs
  <2> QED
    BY <2>1, <2>2, <2>4, <2>5, <2>6
<1>3. \A n \in 0 .. last : SumUpTo(n) \in Nat
  <2> DEFINE I == {n \in Nat : n \in 0 .. last => SumUpTo(n) \in Nat}
  <2>1. 0 \in I
    BY <1>1
  <2>2. ASSUME NEW n \in I PROVE n + 1 \in I
    <3>1. ASSUME n + 1 \in 0 .. last PROVE SumUpTo(n + 1) \in Nat
      <4>1. n \in 0 .. last /\ n + 1 \in 1 .. last /\ ((n + 1) - 1) = n
        BY <1>0, <3>1
      <4>2. SumUpTo(n + 1) = SumUpTo((n + 1) - 1) + sizes[n + 1]
        BY <1>2, <4>1
      <4>3. SumUpTo((n + 1) - 1) = SumUpTo(n)
        BY <4>1
      <4>4. SumUpTo(n) \in Nat /\ sizes[n + 1] \in Nat
        BY <1>0, <4>1
      <4> QED
        BY <4>2, <4>3, <4>4
    <3> QED
      BY <3>1
  <2>3. I = Nat
    BY <2>1, <2>2, NumbersFromZero
  <2> QED
    BY <2>3, <1>0
<1> QED
  BY <1>1, <1>2, <1>3 DEF last

LEMMA SumGrows ==
  ASSUME config \in Configs, NEW m \in 0 .. Len(sizes), NEW n \in 0 .. Len(sizes), m <= n
  PROVE  SumUpTo(m) <= SumUpTo(n)
<1> DEFINE last == Len(sizes)
           I == {k \in Nat : m + k <= last => SumUpTo(m) <= SumUpTo(m + k)}
<1>0. last \in Nat /\ m \in Nat /\ \A s \in 1 .. last : sizes[s] \in Nat
  BY ConfigType
<1>1. 0 \in I
  BY <1>0, SumSteps
<1>2. ASSUME NEW k \in I PROVE k + 1 \in I
  <2>1. ASSUME m + (k + 1) <= last PROVE SumUpTo(m) <= SumUpTo(m + (k + 1))
    <3>1. PICK j \in 0 .. last : j = m + k
      BY <1>0, <2>1
    <3>2. j + 1 \in 1 .. last /\ m + (k + 1) = j + 1 /\ ((j + 1) - 1) = j
      BY <1>0, <2>1, <3>1
    <3>3. SumUpTo(j + 1) = SumUpTo((j + 1) - 1) + sizes[j + 1]
      BY <3>2, SumSteps
    <3>4. SumUpTo((j + 1) - 1) = SumUpTo(j)
      BY <3>2
    <3>5. SumUpTo(m) <= SumUpTo(j)
      BY <1>0, <3>1
    <3>6. SumUpTo(m) \in Nat /\ SumUpTo(j) \in Nat /\ sizes[j + 1] \in Nat
      BY <1>0, <3>1, <3>2, SumSteps
    <3> QED
      BY <3>2, <3>3, <3>4, <3>5, <3>6
  <2> QED
    BY <2>1
<1>3. I = Nat
  BY <1>1, <1>2, NumbersFromZero
<1>4. PICK k \in Nat : n = m + k
  <2>1. n - m \in Nat /\ n = m + (n - m)
    BY <1>0
  <2> QED
    BY <2>1
<1>5. m + k <= last
  BY <1>0, <1>4
<1> QED
  BY <1>3, <1>4, <1>5

\* The weights up to the n-th can be divided.
LEMMA EvenSums ==
  ASSUME config \in Configs, NEW n \in 0 .. Len(sizes), \A s \in 1 .. n : sizes[s] % tp_size = 0
  PROVE  SumUpTo(n) % tp_size = 0
<1> DEFINE last == Len(sizes)
           I == {k \in Nat : k <= n => SumUpTo(k) % tp_size = 0}
<1>0. last \in Nat /\ n \in Nat /\ n <= last /\ tp_size \in Nat \ {0} /\ \A s \in 1 .. last : sizes[s] \in Nat
  BY ConfigType
<1>1. 0 \in I
  BY <1>0, SumSteps
<1>2. ASSUME NEW k \in I PROVE k + 1 \in I
  <2>1. ASSUME k + 1 <= n PROVE SumUpTo(k + 1) % tp_size = 0
    <3>1. k \in 0 .. last /\ k + 1 \in 1 .. last /\ ((k + 1) - 1) = k /\ k <= n /\ k + 1 \in 1 .. n
      BY <1>0, <2>1
    <3>2. SumUpTo(k + 1) = SumUpTo((k + 1) - 1) + sizes[k + 1]
      BY <3>1, SumSteps
    <3>3. SumUpTo((k + 1) - 1) = SumUpTo(k)
      BY <3>1
    <3>4. SumUpTo(k) \in Nat /\ sizes[k + 1] \in Nat /\ SumUpTo(k) % tp_size = 0 /\ sizes[k + 1] % tp_size = 0
      BY <1>0, <3>1, SumSteps
    <3>5. (SumUpTo(k) + sizes[k + 1]) % tp_size = 0
      <4>1. PICK a \in Nat, b \in Nat, d \in Nat \ {0} :
              a = SumUpTo(k) /\ b = sizes[k + 1] /\ d = tp_size
        BY <1>0, <3>4
      <4>2. a % d = 0 /\ b % d = 0
        BY <3>4, <4>1
      <4>3. (a + b) % d = 0
        BY <4>2, ModAddsEven
      <4> QED
        BY <4>1, <4>3
    <3> QED
      BY <3>2, <3>3, <3>5
  <2> QED
    BY <2>1
<1>3. I = Nat
  BY <1>1, <1>2, NumbersFromZero
<1> QED
  BY <1>0, <1>3

-----------------------------------------------------------------------------
(* Where the shards of a parameter are.                                    *)

\* A number that is a multiple of d.
LEMMA MultipleDivides ==
  ASSUME NEW q \in Nat, NEW d \in Nat \ {0}
  PROVE  (q * d) \div d = q /\ (q * d) % d = 0
<1>1. q * d \in Nat /\ q * d = q * d + 0 /\ 0 \in 0 .. d - 1
  OBVIOUS
<1>2. (q * d) \div d = q
  BY <1>1, DivUnique
<1>3. q * d = d * q + ((q * d) % d) /\ (q * d) % d \in 0 .. d - 1
  BY <1>1, <1>2, DivMod
<1> QED
  BY <1>1, <1>2, <1>3

\* The heads of q, k and v: all of them can be divided, and so can the rows.
LEMMA HeadsDivide ==
  ASSUME config \in Configs, config.kind = "qkv", NEW s \in Shards, Heads(s) % tp_size = 0
  PROVE  /\ Heads(s) \in Nat \ {0}
         /\ Heads(s) \div tp_size \in Nat \ {0}
         /\ Heads(s) = tp_size * (Heads(s) \div tp_size)
         /\ sizes[s] % tp_size = 0
         /\ sizes[s] \div tp_size = (Heads(s) \div tp_size) * config.head_size
<1>1. PICK n \in Nat \ {0}, d \in Nat \ {0}, k \in Nat \ {0} :
        n = sizes[s] /\ d = config.head_size /\ k = tp_size /\ n % d = 0
  BY ConfigType
<1>2. PICK h \in Nat : h = Heads(s) /\ h = n \div d /\ n = d * h
  <2>1. n \div d \in Nat /\ n = d * (n \div d) + (n % d)
    BY DivMod
  <2> QED
    BY <1>1, <2>1 DEF Heads
<1>3. PICK m \in Nat : m = h \div k /\ h = k * m
  <2>1. h \div k \in Nat /\ h = k * (h \div k) + (h % k)
    BY DivMod
  <2> QED
    BY <1>1, <1>2, <2>1
<1>4. h # 0 /\ m # 0
  BY <1>1, <1>2, <1>3
<1>5. m * d \in Nat /\ n = (m * d) * k
  <2>1. m * d \in Nat
    OBVIOUS
  <2>2. d * (k * m) = (m * d) * k
    OBVIOUS
  <2> QED
    BY <1>2, <1>3, <2>1, <2>2
<1>6. n \div k = m * d /\ n % k = 0
  BY <1>5, MultipleDivides
<1> QED
  BY <1>1, <1>2, <1>3, <1>4, <1>6

\* The rows of the shards before s, as shard_offset adds them up for heads.
LEMMA HeadRowsSum ==
  ASSUME NEW S, IsFiniteSet(S)
  PROVE  MapThenSumSet(LAMBDA t : (Heads(t) \div tp_size) * config.head_size, S)
           = SumOf([t \in S |-> (Heads(t) \div tp_size) * config.head_size], S)
<1> DEFINE HeadRows(t) == (Heads(t) \div tp_size) * config.head_size
           f == [t \in S |-> HeadRows(t)]
           Body(g, s) == IF s = {} THEN 0 ELSE HeadRows(Choice(s)) + g[s \ {Choice(s)}]
           Sums(g) == g = [s \in SUBSET S |-> Body(g, s)]
           g == CHOOSE k : Sums(k)
<1>1. MapThenSumSet(LAMBDA t : HeadRows(t), S) = g[S]
  BY DEF MapThenSumSet, MapThenFoldSet, Choice
<1>2. \A k : \A s \in SUBSET S :
        Body(k, s) = IF s = {} THEN 0 ELSE f[Choice(s)] + k[s \ {Choice(s)}]
  <2> HIDE DEF HeadRows
  <2> QED
    BY ChoiceInSet
<1>3. ASSUME NEW k
      PROVE  Sums(k) <=> IsSum(k, f, S)
  <2> HIDE DEF Body, f
  <2> QED
    BY <1>2 DEF IsSum
<1> HIDE DEF Sums, f
<1>4. \E k : Sums(k)
  BY <1>3, SumExists
<1>5. Sums(g)
  BY <1>4
<1> HIDE DEF g
<1>6. PICK h : IsSum(h, f, S) /\ SumOf(f, S) = h[S]
  BY SumOfIs
<1>7. IsSum(g, f, S)
  BY <1>3, <1>5
<1>8. g[S] = h[S]
  BY <1>6, <1>7, SumAgrees
<1> QED
  BY <1>1, <1>6, <1>8 DEF f

LEMMA OneTerm ==
  ASSUME NEW f, f[1] \in Int
  PROVE  IsFiniteSet({1}) /\ SumOf(f, {1}) = f[1]
<1>1. PICK S : S = {} /\ IsFiniteSet(S) /\ SumOf(f, S) = 0
  BY SumOfEmpty, FS_EmptySet
<1>2. 1 \notin S /\ \A x \in S \cup {1} : f[x] \in Int
  BY <1>1
<1>3. IsFiniteSet(S \cup {1}) /\ SumOf(f, S \cup {1}) = SumOf(f, S) + f[1]
  BY <1>1, <1>2, SumOfAdds
<1>4. S \cup {1} = {1}
  BY <1>1
<1>5. IsFiniteSet({1}) /\ SumOf(f, {1}) = SumOf(f, S) + f[1]
  BY <1>3, <1>4, Zenon
<1> QED
  BY <1>1, <1>5

LEMMA TwoTerms ==
  ASSUME NEW f, f[1] \in Int, f[2] \in Int
  PROVE  SumOf(f, {1, 2}) = f[1] + f[2]
<1>1. IsFiniteSet({1}) /\ SumOf(f, {1}) = f[1]
  BY OneTerm
<1>2. 2 \notin {1} /\ \A x \in {1} \cup {2} : f[x] \in Int
  OBVIOUS
<1>3. SumOf(f, {1} \cup {2}) = SumOf(f, {1}) + f[2]
  BY <1>1, <1>2, SumOfAdds
<1>4. {1} \cup {2} = {1, 2}
  OBVIOUS
<1>5. SumOf(f, {1, 2}) = SumOf(f, {1}) + f[2]
  BY <1>3, <1>4, Zenon
<1> QED
  BY <1>1, <1>5

LEMMA QkvOffsets ==
  ASSUME config \in Configs, config.kind = "qkv", Divides, NEW s \in Shards
  PROVE  shard_offset(s) = SumUpTo(s - 1) \div tp_size
<1> DEFINE HeadRows(t) == (Heads(t) \div tp_size) * config.head_size
           f == [t \in 1 .. s - 1 |-> HeadRows(t)]
<1>1. Shards = 1 .. 3 /\ s \in 1 .. 3 /\ Shards = 1 .. Len(sizes)
  BY ConfigType
<1>2. PICK k \in Nat \ {0}, a \in Nat, b \in Nat : k = tp_size /\ a = sizes[1] /\ b = sizes[2]
  BY <1>1, ConfigType
<1>3. /\ a % k = 0 /\ b % k = 0
      /\ HeadRows(1) = a \div k /\ HeadRows(2) = b \div k
  <2>1. 1 \in Shards /\ 2 \in Shards
    BY <1>1
  <2>2. \A t \in Shards : Heads(t) % tp_size = 0
    BY DEF Divides
  <2>3. sizes[1] % tp_size = 0 /\ sizes[1] \div tp_size = HeadRows(1)
    BY <2>1, <2>2, HeadsDivide
  <2>4. sizes[2] % tp_size = 0 /\ sizes[2] \div tp_size = HeadRows(2)
    BY <2>1, <2>2, HeadsDivide
  <2> QED
    BY <1>2, <2>3, <2>4
<1>4. shard_offset(s) = SumOf(f, 1 .. s - 1)
  <2>1. IsFiniteSet(1 .. s - 1)
    BY <1>1, FS_Interval
  <2>2. shard_offset(s) = MapThenSumSet(LAMBDA t : HeadRows(t), 1 .. s - 1)
    BY DEF shard_offset
  <2> QED
    BY <2>1, <2>2, HeadRowsSum
<1>5. SumUpTo(0) = 0 /\ SumUpTo(1) = a /\ SumUpTo(2) = a + b
  <2>1. 1 \in 1 .. Len(sizes) /\ 2 \in 1 .. Len(sizes)
    BY <1>1
  <2>2. SumUpTo(0) = 0 /\ SumUpTo(1) = SumUpTo(1 - 1) + sizes[1] /\ SumUpTo(2) = SumUpTo(2 - 1) + sizes[2]
    BY <2>1, SumSteps
  <2>3. 1 - 1 = 0 /\ 2 - 1 = 1
    OBVIOUS
  <2> QED
    BY <1>2, <2>2, <2>3
<1>6. /\ a \div k \in Nat /\ b \div k \in Nat
      /\ (a + b) \div k = a \div k + b \div k
  BY <1>3, DivAddsEven
<1>7. CASE s = 1
  <2>1. 1 .. s - 1 = {} /\ s - 1 = 0
    BY <1>7
  <2>2. 0 \div k = 0
    BY <1>2
  <2>3. SumOf(f, 1 .. s - 1) = 0
    BY <2>1, SumOfEmpty
  <2> QED
    BY <1>2, <1>4, <1>5, <2>1, <2>2, <2>3
<1>8. CASE s = 2
  <2>1. 1 .. s - 1 = {1} /\ s - 1 = 1
    BY <1>8
  <2>2. f[1] = a \div k
    BY <1>3, <2>1
  <2> HIDE DEF f
  <2>4. SumOf(f, {1}) = f[1]
    BY <1>6, <2>2, OneTerm
  <2> QED
    BY <1>2, <1>4, <1>5, <2>1, <2>2, <2>4
<1>9. CASE s = 3
  <2>1. 1 .. s - 1 = {1, 2} /\ s - 1 = 2
    BY <1>9
  <2>2. f[1] = a \div k /\ f[2] = b \div k
    BY <1>3, <2>1
  <2> HIDE DEF f
  <2>3. SumOf(f, {1, 2}) = f[1] + f[2]
    BY <1>6, <2>2, TwoTerms
  <2> QED
    BY <1>2, <1>4, <1>5, <1>6, <2>1, <2>2, <2>3
<1> QED
  BY <1>1, <1>7, <1>8, <1>9

\* What the constructor has divided.
LEMMA ShardSizes ==
  ASSUME config \in Configs, Divides, NEW s \in Shards
  PROVE  /\ Whole => /\ s = 1 /\ Shards = {1}
                     /\ shard_offset(s) = 0 /\ shard_size(s) = sizes[s] /\ param_size = sizes[s]
         /\ ~Whole => /\ shard_offset(s) = SumUpTo(s - 1) \div tp_size
                      /\ shard_size(s) = sizes[s] \div tp_size
                      /\ param_size = SumUpTo(Len(sizes)) \div tp_size
                      /\ SumUpTo(Len(sizes)) % tp_size = 0
         /\ ~Packed => s = 1 /\ shard_offset(s) = 0 /\ SumUpTo(Len(sizes)) = sizes[1]
<1>1. /\ Whole => ~Packed
      /\ config.kind # "qkv" /\ config.kind # "merged" => ~Packed
      /\ config.kind = "qkv" \/ config.kind = "merged" => Packed /\ ~Whole
  BY DEF Whole, Packed
<1>2. tp_size \in Nat \ {0} /\ 0 \div tp_size = 0
  <2>1. PICK k \in Nat \ {0} : k = tp_size
    BY ConfigType
  <2>2. 0 \div k = 0
    OBVIOUS
  <2> QED
    BY <2>1, <2>2
<1>3. ~Packed => /\ s = 1 /\ Shards = {1} /\ shard_offset(s) = 0 /\ shard_size(s) = param_size
                 /\ SumUpTo(s - 1) = 0
                 /\ SumUpTo(Len(sizes)) = sizes[1] /\ sizes[1] \in Nat
  <2> SUFFICES ASSUME ~Packed
               PROVE  /\ s = 1 /\ Shards = {1} /\ shard_offset(s) = 0 /\ shard_size(s) = param_size
                      /\ SumUpTo(s - 1) = 0
                      /\ SumUpTo(Len(sizes)) = sizes[1] /\ sizes[1] \in Nat
    OBVIOUS
  <2>1. Shards = {1} /\ s = 1 /\ Shards = 1 .. Len(sizes) /\ Len(sizes) \in Nat \ {0} /\ sizes[1] \in Nat
    BY ConfigType
  <2>2. Len(sizes) = 1
    <3>1. PICK n \in Nat \ {0} : n = Len(sizes)
      BY <2>1
    <3>2. n \in 1 .. n
      OBVIOUS
    <3> QED
      BY <2>1, <3>1, <3>2
  <2>3. SumUpTo(0) = 0 /\ SumUpTo(1) = SumUpTo(1 - 1) + sizes[1]
    BY <2>2, SumSteps
  <2>4. 1 - 1 = 0
    OBVIOUS
  <2>5. shard_offset(s) = 0 /\ shard_size(s) = param_size
    BY <1>1 DEF shard_offset, shard_size, Packed
  <2> QED
    BY <2>1, <2>2, <2>3, <2>4, <2>5
<1>4. CASE Whole
  BY <1>1, <1>3, <1>4 DEF param_size, OutputSize
<1>5. CASE ~Whole
  <2>1. param_size = SumUpTo(Len(sizes)) \div tp_size /\ SumUpTo(Len(sizes)) % tp_size = 0
    BY <1>5 DEF param_size, OutputSize, Divides
  <2>2. CASE ~Packed
    BY <1>2, <1>3, <1>5, <2>1, <2>2
  <2>3. CASE config.kind = "merged"
    BY <1>1, <1>5, <2>1, <2>3 DEF shard_offset, shard_size
  <2>4. CASE config.kind = "qkv"
    <3>1. shard_size(s) = sizes[s] \div tp_size
      BY <2>4, HeadsDivide DEF shard_size, Divides
    <3> QED
      BY <1>1, <1>5, <2>1, <2>4, <3>1, QkvOffsets
  <2> QED
    BY <2>2, <2>3, <2>4 DEF Packed
<1> QED
  BY <1>4, <1>5

(***************************************************************************)
(* Rounding can leave gaps between the shards of a parameter, but they     *)
(* never overlap and never leave the parameter.                            *)
(***************************************************************************)
LEMMA ShardsApart ==
  ASSUME config \in Configs, Divides, NEW s \in Shards
  PROVE  /\ shard_offset(s) \in Nat /\ shard_size(s) \in Nat /\ param_size \in Nat \ {0}
         /\ shard_offset(s) + shard_size(s) <= param_size
         /\ \A t \in Shards : s < t => shard_offset(s) + shard_size(s) <= shard_offset(t)
<1>1. CASE Whole
  <2>1. s = 1 /\ Shards = {1} /\ sizes[s] \in Nat \ {0}
    BY <1>1, ShardSizes, ConfigType
  <2>2. shard_offset(s) = 0 /\ shard_size(s) = sizes[s] /\ param_size = sizes[s]
    BY <1>1, ShardSizes
  <2>3. \A t \in Shards : ~(s < t)
    BY <2>1
  <2> QED
    BY <2>1, <2>2, <2>3
<1>2. CASE ~Whole
  <2> DEFINE last == Len(sizes)
  <2>1. last \in Nat \ {0} /\ Shards = 1 .. last /\ tp_size \in Nat \ {0} /\ s \in 1 .. last
    BY ConfigType
  <2>2. ASSUME NEW t \in 1 .. last
        PROVE  /\ SumUpTo(t - 1) \div tp_size \in Nat /\ sizes[t] \div tp_size \in Nat
               /\ SumUpTo(t - 1) \div tp_size + sizes[t] \div tp_size <= SumUpTo(t) \div tp_size
    <3>1. t - 1 \in 0 .. last
      BY <2>1
    <3>2. PICK a \in Nat, b \in Nat, k \in Nat \ {0} :
            a = SumUpTo(t - 1) /\ b = sizes[t] /\ k = tp_size
      BY <2>1, <3>1, SumSteps, ConfigType
    <3>3. SumUpTo(t) = a + b
      BY <3>2, SumSteps
    <3>4. a \div k \in Nat /\ b \div k \in Nat /\ a \div k + b \div k <= (a + b) \div k
      BY DivAdds
    <3> QED
      BY <3>2, <3>3, <3>4
  <2>3. ASSUME NEW m \in 0 .. last, NEW n \in 0 .. last, m <= n
        PROVE  /\ SumUpTo(m) \div tp_size \in Nat /\ SumUpTo(n) \div tp_size \in Nat
               /\ SumUpTo(m) \div tp_size <= SumUpTo(n) \div tp_size
    <3>1. PICK a \in Nat, c \in Nat, k \in Nat \ {0} :
            a = SumUpTo(m) /\ c = SumUpTo(n) /\ k = tp_size
      BY <2>1, SumSteps
    <3>2. a <= c
      BY <2>3, <3>1, SumGrows
    <3>3. c - a \in Nat /\ a + (c - a) = c
      BY <3>2
    <3>4. PICK b \in Nat : a + b = c
      BY <3>3
    <3>5. PICK p \in Nat, q \in Nat : p = a \div k /\ q = b \div k /\ p + q <= (a + b) \div k
      BY DivAdds
    <3>6. c \div k \in Nat
      OBVIOUS
    <3>7. p + q <= c \div k
      BY <3>4, <3>5
    <3>8. a \div k <= c \div k
      BY <3>5, <3>6, <3>7
    <3> QED
      BY <3>1, <3>5, <3>6, <3>8
  <2>4. \A t \in Shards : /\ shard_offset(t) = SumUpTo(t - 1) \div tp_size
                          /\ shard_size(t) = sizes[t] \div tp_size
    BY <1>2, ShardSizes
  <2>5. param_size = SumUpTo(last) \div tp_size /\ SumUpTo(last) % tp_size = 0
    BY <1>2, ShardSizes
  <2>6. SumUpTo(last) # 0
    <3>1. last - 1 \in 0 .. last /\ last \in 1 .. last
      BY <2>1
    <3>2. SumUpTo(last) = SumUpTo(last - 1) + sizes[last]
      BY <3>1, SumSteps
    <3>3. SumUpTo(last - 1) \in Nat /\ sizes[last] \in Nat \ {0}
      BY <2>1, <3>1, SumSteps, ConfigType
    <3> QED
      BY <3>2, <3>3
  <2>7. param_size \in Nat \ {0}
    <3>1. PICK a \in Nat, k \in Nat \ {0} : a = SumUpTo(last) /\ k = tp_size
      BY <2>1, SumSteps
    <3>2. a \div k \in Nat /\ a = k * (a \div k) + (a % k)
      BY DivMod
    <3> QED
      BY <2>5, <2>6, <3>1, <3>2
  <2>8. shard_offset(s) + shard_size(s) <= SumUpTo(s) \div tp_size
    BY <2>1, <2>2, <2>4
  <2>9. shard_offset(s) \in Nat /\ shard_size(s) \in Nat
    BY <2>1, <2>2, <2>4
  <2>10. shard_offset(s) + shard_size(s) <= param_size
    <3>1. s \in 0 .. last /\ last \in 0 .. last /\ s <= last
      BY <2>1
    <3>2. /\ SumUpTo(s) \div tp_size \in Nat /\ SumUpTo(last) \div tp_size \in Nat
          /\ SumUpTo(s) \div tp_size <= SumUpTo(last) \div tp_size
      BY <2>3, <3>1
    <3> QED
      BY <2>5, <2>8, <2>9, <3>2
  <2>11. ASSUME NEW t \in Shards, s < t
         PROVE  shard_offset(s) + shard_size(s) <= shard_offset(t)
    <3>1. s \in 0 .. last /\ t - 1 \in 0 .. last /\ s <= t - 1
      BY <2>1, <2>11
    <3>2. /\ SumUpTo(s) \div tp_size \in Nat /\ SumUpTo(t - 1) \div tp_size \in Nat
          /\ SumUpTo(s) \div tp_size <= SumUpTo(t - 1) \div tp_size
      BY <2>3, <3>1
    <3>3. shard_offset(t) = SumUpTo(t - 1) \div tp_size
      BY <2>4
    <3> QED
      BY <2>8, <2>9, <3>2, <3>3
  <2> QED
    BY <2>7, <2>9, <2>10, <2>11
<1> QED
  BY <1>1, <1>2

-----------------------------------------------------------------------------
(* The rows that a rank copies.                                            *)

\* Row k of the place of shard s on rank r, as copy_ fills it.
Row(s, r, k) ==
  IF Cardinality(Source(s, r)) = 1 THEN Min(Source(s, r)) ELSE Min(Source(s, r)) + k

LEMMA IntervalMin ==
  ASSUME NEW m \in Int, NEW n \in Int, m <= n
  PROVE  Min(m .. n) = m /\ Cardinality(m .. n) = n - m + 1
<1>1. Cardinality(m .. n) = n - m + 1
  BY FS_Interval
<1>2. m \in m .. n /\ \A y \in m .. n : m =< y
  OBVIOUS
<1>3. \A x \in m .. n : (\A y \in m .. n : x =< y) => x = m
  BY <1>2
<1> QED
  BY <1>1, <1>2, <1>3 DEF Min

LEMMA SourceType ==
  ASSUME config \in Configs, Divides, NEW s \in Shards, NEW r \in Ranks
  PROVE  \E m \in Nat, n \in Int : Source(s, r) = m .. n /\ n <= sizes[s] - 1
<1>1. PICK size \in Nat \ {0}, tp \in Nat \ {0} : size = sizes[s] /\ tp = tp_size
  BY ConfigType
<1>2. r \in 0 .. tp - 1
  BY <1>1 DEF Ranks
<1>3. CASE Whole
  <2>1. Source(s, r) = 0 .. size - 1
    BY <1>1, <1>3 DEF Source
  <2> QED
    BY <1>1, <2>1
<1>4. CASE ~Whole /\ Packed
  <2>1. Source(s, r) = ChunkOf(size, tp, r)
    BY <1>1, <1>4 DEF Source
  <2>2. PICK c \in Nat : c = CeilDiv(size, tp)
    <3>1. size + tp - 1 \in Nat
      OBVIOUS
    <3>2. (size + tp - 1) \div tp \in Nat
      BY <3>1
    <3> QED
      BY <3>2 DEF CeilDiv
  <2>3. PICK m \in Nat : m = r * c
    BY <1>2
  <2>4. Source(s, r) = {i \in m .. m + c - 1 : i < size}
    BY <2>1, <2>2, <2>3 DEF ChunkOf, Interval
  <2>5. CASE m + c - 1 < size
    <3>1. Source(s, r) = m .. m + c - 1
      BY <2>4, <2>5
    <3> QED
      BY <1>1, <2>5, <3>1
  <2>6. CASE ~(m + c - 1 < size)
    <3>1. Source(s, r) = m .. size - 1
      BY <2>4, <2>6
    <3> QED
      BY <1>1, <3>1
  <2> QED
    BY <2>5, <2>6
<1>5. CASE ~Whole /\ ~Packed
  <2>1. s = 1 /\ Source(s, r) = SliceOf(param_size, r)
    BY <1>5, ShardSizes DEF Source
  <2>2. size % tp = 0 /\ param_size = size \div tp
    BY <1>1, <1>5, <2>1, ShardSizes
  <2>3. PICK n \in Nat : n = size \div tp /\ size = n * tp
    <3>1. size \div tp \in Nat /\ size = tp * (size \div tp) + (size % tp)
      BY DivMod
    <3> QED
      BY <2>2, <3>1
  <2>4. PICK m \in Nat : m = r * n
    BY <1>2, <2>3
  <2>5. Source(s, r) = m .. m + n - 1
    BY <2>1, <2>2, <2>3, <2>4 DEF SliceOf, Interval
  <2>6. m + n <= size
    <3>1. (r + 1) * n <= tp * n
      BY <1>2, <2>3
    <3>2. (r + 1) * n = r * n + n /\ tp * n = n * tp
      BY <1>2, <2>3
    <3> QED
      BY <2>3, <2>4, <3>1, <3>2
  <2> QED
    BY <1>1, <2>5, <2>6
<1> QED
  BY <1>3, <1>4, <1>5

LEMMA RowInSource ==
  ASSUME config \in Configs, Divides, NEW s \in Shards, NEW r \in Ranks,
         ~LoaderRaises(s, r), NEW k \in 0 .. shard_size(s) - 1
  PROVE  Row(s, r, k) \in 0 .. sizes[s] - 1
<1>1. PICK m \in Nat, n \in Int : Source(s, r) = m .. n /\ n <= sizes[s] - 1
  BY SourceType
<1>2. PICK size \in Nat : size = shard_size(s)
  BY ShardsApart
<1>3. m .. n # {} /\ Cardinality(m .. n) \in {1, size}
  BY <1>1, <1>2 DEF LoaderRaises, Copies
<1>4. m <= n
  BY <1>3
<1>5. Min(m .. n) = m /\ Cardinality(m .. n) = n - m + 1
  BY <1>4, IntervalMin
<1>6. sizes[s] \in Nat
  BY ConfigType
<1>7. CASE Cardinality(m .. n) = 1
  BY <1>1, <1>4, <1>5, <1>6, <1>7 DEF Row
<1>8. CASE Cardinality(m .. n) # 1
  <2>1. k \in 0 .. n - m
    BY <1>2, <1>3, <1>5, <1>8
  <2>2. Row(s, r, k) = m + k
    BY <1>1, <1>5, <1>8 DEF Row
  <2> QED
    BY <1>1, <1>6, <2>1, <2>2
<1> QED
  BY <1>7, <1>8

(***************************************************************************)
(* A divided weight that all ranks can divide: each rank copies its slice, *)
(* in order.                                                               *)
(***************************************************************************)
LEMMA EvenRows ==
  ASSUME config \in Configs, Divides, ~Whole, NEW s \in Shards, sizes[s] % tp_size = 0
  PROVE  /\ sizes[s] \div tp_size \in Nat \ {0}
         /\ sizes[s] = (sizes[s] \div tp_size) * tp_size
         /\ shard_size(s) = sizes[s] \div tp_size
         /\ \A r \in Ranks :
              /\ Source(s, r) = SliceOf(sizes[s] \div tp_size, r)
              /\ ~LoaderRaises(s, r)
              /\ \A k \in 0 .. sizes[s] \div tp_size - 1 :
                   Row(s, r, k) = r * (sizes[s] \div tp_size) + k
<1>1. PICK size \in Nat \ {0}, tp \in Nat \ {0} : size = sizes[s] /\ tp = tp_size
  BY ConfigType
<1>2. PICK n \in Nat \ {0} : n = size \div tp /\ size = n * tp
  <2>1. PICK n \in Nat : n = size \div tp /\ size = tp * n + (size % tp)
    BY DivMod
  <2>2. size % tp = 0
    BY <1>1
  <2>3. size = n * tp
    BY <2>1, <2>2
  <2>4. n # 0
    BY <2>3
  <2> QED
    BY <2>1, <2>3, <2>4
<1>3. shard_size(s) = n /\ config.kind # "row bias"
  BY <1>1, <1>2, ShardSizes DEF Whole
<1>4. ASSUME NEW r \in Ranks
      PROVE  /\ Source(s, r) = SliceOf(n, r)
             /\ ~LoaderRaises(s, r)
             /\ \A k \in 0 .. n - 1 : Row(s, r, k) = r * n + k
  <2>1. r \in 0 .. tp - 1
    BY <1>1 DEF Ranks
  <2>2. Source(s, r) = SliceOf(n, r)
    <3>1. CASE Packed
      <4>1. ChunkOf(n * tp, tp, r) = SliceOf(n, r)
        BY <2>1, SlicesPartition
      <4> QED
        BY <1>1, <1>2, <3>1, <4>1 DEF Source
    <3>2. CASE ~Packed
      <4>1. param_size = n
        BY <1>1, <1>2, <3>2, ShardSizes
      <4> QED
        BY <3>2, <4>1 DEF Source
    <3> QED
      BY <3>1, <3>2
  <2>3. PICK m \in Nat, q \in Int : m = r * n /\ q = m + n - 1
    BY <2>1
  <2>4. Source(s, r) = m .. q /\ m <= q
    BY <2>2, <2>3 DEF SliceOf, Interval
  <2>5. Min(m .. q) = m /\ Cardinality(m .. q) = n /\ m .. q # {}
    <3>1. Min(m .. q) = m /\ Cardinality(m .. q) = q - m + 1 /\ m \in m .. q
      BY <2>4, IntervalMin
    <3>2. q - m + 1 = n
      BY <2>3
    <3>3. m .. q # {}
      BY <3>1
    <3> QED
      BY <3>1, <3>2, <3>3
  <2>6. ~LoaderRaises(s, r)
    BY <1>3, <2>4, <2>5 DEF LoaderRaises, Copies
  <2>7. ASSUME NEW k \in 0 .. n - 1 PROVE Row(s, r, k) = r * n + k
    <3>1. Row(s, r, k) = IF n = 1 THEN m ELSE m + k
      BY <2>4, <2>5 DEF Row
    <3>2. n = 1 => m = m + k
      OBVIOUS
    <3>3. Row(s, r, k) = m + k
      BY <3>1, <3>2
    <3> QED
      BY <2>3, <3>3
  <2> QED
    BY <2>2, <2>6, <2>7
<1> QED
  BY <1>1, <1>2, <1>3, <1>4

-----------------------------------------------------------------------------
(* What a rank has loaded.                                                 *)

Places(s) == Interval(shard_offset(s), shard_size(s))

(***************************************************************************)
(* A parameter with rows passed its constructor's assertions; it holds     *)
(* what the weight loaders copied, each shard in its place, and nothing    *)
(* elsewhere.                                                              *)
(***************************************************************************)
RankInv(r) ==
  /\ loaded[r] \subseteq present
  /\ param[r] = <<>> => loaded[r] = {}
  /\ param[r] # <<>> => Divides /\ DOMAIN param[r] = 0 .. param_size - 1
  /\ \A s \in loaded[r] :
       /\ ~LoaderRaises(s, r)
       /\ \A i \in Places(s) : param[r][i] = <<s, Row(s, r, i - shard_offset(s))>>
  /\ \A i \in DOMAIN param[r] :
       (\A s \in loaded[r] : i \notin Places(s)) => param[r][i] = Empty

LoadInv ==
  /\ config \in Configs /\ present \subseteq Shards /\ failed \subseteq Ranks
  /\ DOMAIN param = Ranks /\ DOMAIN loaded = Ranks
  /\ \A r \in Ranks : RankInv(r)
  /\ failed # {} => ~Divides \/ \E s \in Shards, r \in Ranks : LoaderRaises(s, r)

\* Loading does not change the layer.
LEMMA SameSizes ==
  ASSUME config' = config
  PROVE  /\ tp_size' = tp_size /\ sizes' = sizes /\ Ranks' = Ranks /\ Shards' = Shards
         /\ (Packed' <=> Packed) /\ (Whole' <=> Whole)
         /\ param_size' = param_size /\ (Divides' <=> Divides)
         /\ \A s : shard_offset(s)' = shard_offset(s)
         /\ \A s : shard_size(s)' = shard_size(s)
<1>1. tp_size' = tp_size /\ sizes' = sizes
  BY DEF tp_size, sizes
<1>2. Ranks' = Ranks /\ Shards' = Shards /\ (Packed' <=> Packed) /\ (Whole' <=> Whole)
  BY <1>1 DEF Ranks, Shards, Packed, Whole
<1>3. \A n : SumUpTo(n)' = SumUpTo(n)
  BY DEF SumUpTo, MapThenSumSet, MapThenFoldSet, sizes
<1>4. OutputSize' = OutputSize
  BY <1>1, <1>3 DEF OutputSize
<1>5. \A s : Heads(s)' = Heads(s)
  BY <1>1 DEF Heads
<1>6. Divides' <=> Divides
  BY <1>1, <1>2, <1>4, <1>5 DEF Divides
<1>7. param_size' = param_size
  BY <1>1, <1>2, <1>4 DEF param_size
<1>8. \A s : shard_size(s)' = shard_size(s)
  BY <1>1, <1>5, <1>7 DEF shard_size
<1>9. ASSUME NEW s PROVE shard_offset(s)' = shard_offset(s)
  BY DEF shard_offset, SumUpTo, MapThenSumSet, MapThenFoldSet, Heads, sizes, tp_size
<1> QED
  BY <1>1, <1>2, <1>6, <1>7, <1>8, <1>9

LEMMA SameRows ==
  ASSUME config' = config
  PROVE  /\ \A s : Places(s)' = Places(s)
         /\ \A s, r : LoaderRaises(s, r)' <=> LoaderRaises(s, r)
         /\ \A s, r, k : Row(s, r, k)' = Row(s, r, k)
<1>1. \A s, r : Source(s, r)' = Source(s, r)
  BY SameSizes DEF Source
<1>2. \A s : Places(s)' = Places(s)
  BY SameSizes DEF Places
<1>3. \A s, r : LoaderRaises(s, r)' <=> LoaderRaises(s, r)
  BY <1>1, SameSizes DEF LoaderRaises
<1>4. \A s, r, k : Row(s, r, k)' = Row(s, r, k)
  BY <1>1 DEF Row
<1> QED
  BY <1>2, <1>3, <1>4

\* The places of two shards are apart, and inside the parameter.
LEMMA PlacesApart ==
  ASSUME config \in Configs, Divides, NEW s \in Shards
  PROVE  /\ Places(s) \subseteq 0 .. param_size - 1
         /\ \A t \in Shards : t # s => Places(t) \cap Places(s) = {}
<1>1. /\ shard_offset(s) \in Nat /\ shard_size(s) \in Nat /\ param_size \in Nat
      /\ shard_offset(s) + shard_size(s) <= param_size
  BY ShardsApart
<1>2. ASSUME NEW t \in Shards, t # s
      PROVE  Places(t) \cap Places(s) = {}
  <2>1. shard_offset(t) \in Nat /\ shard_size(t) \in Nat
    BY ShardsApart
  <2>2. s \in Nat /\ t \in Nat
    BY ConfigType
  <2>3. CASE s < t
    <3>1. shard_offset(s) + shard_size(s) <= shard_offset(t)
      BY <2>3, ShardsApart
    <3> QED
      BY <1>1, <2>1, <3>1 DEF Places, Interval
  <2>4. CASE t < s
    <3>1. shard_offset(t) + shard_size(t) <= shard_offset(s)
      BY <2>4, ShardsApart
    <3> QED
      BY <1>1, <2>1, <3>1 DEF Places, Interval
  <2> QED
    BY <1>2, <2>2, <2>3, <2>4
<1>3. Places(s) \subseteq 0 .. param_size - 1
  BY <1>1 DEF Places, Interval
<1> QED
  BY <1>2, <1>3

\* A step on rank r leaves the other ranks as they are.
LEMMA OtherRank ==
  ASSUME NEW r, RankInv(r), config' = config, present' = present,
         param'[r] = param[r], loaded'[r] = loaded[r]
  PROVE  RankInv(r)'
<1>1. \A s : Places(s)' = Places(s) /\ shard_offset(s)' = shard_offset(s)
  BY SameRows, SameSizes
<1>2. \A s : LoaderRaises(s, r)' <=> LoaderRaises(s, r)
  BY SameRows
<1>3. \A s, k : Row(s, r, k)' = Row(s, r, k)
  BY SameRows
<1>4. param_size' = param_size /\ (Divides' <=> Divides)
  BY SameSizes
<1>5. /\ loaded'[r] \subseteq present'
      /\ param'[r] = <<>> => loaded'[r] = {}
      /\ param'[r] # <<>> => Divides' /\ DOMAIN param'[r] = 0 .. param_size' - 1
  BY <1>4 DEF RankInv
<1>6. \A s \in loaded'[r] :
        /\ ~LoaderRaises(s, r)'
        /\ \A i \in Places(s)' : param'[r][i] = <<s, Row(s, r, i - shard_offset(s))'>>
  BY <1>1, <1>2, <1>3 DEF RankInv
<1>7. \A i \in DOMAIN param'[r] :
        (\A s \in loaded'[r] : i \notin Places(s)') => param'[r][i] = Empty
  BY <1>1 DEF RankInv
<1> QED
  BY <1>1, <1>5, <1>6, <1>7 DEF RankInv

LEMMA ConstructRank ==
  ASSUME LoadInv, NEW r \in Ranks, Construct(r)
  PROVE  RankInv(r)'
<1>0. /\ config' = config /\ present' = present /\ loaded' = loaded
      /\ param[r] = <<>> /\ loaded[r] = {} /\ RankInv(r)
  BY DEF Construct, LoadInv, RankInv
<1>1. CASE Divides /\ param' = [param EXCEPT ![r] = [i \in 0 .. param_size - 1 |-> Empty]]
  <2>1. param'[r] = [i \in 0 .. param_size - 1 |-> Empty]
    BY <1>1 DEF LoadInv
  <2>2. param_size' = param_size /\ (Divides' <=> Divides)
    BY <1>0, SameSizes
  <2>3. loaded'[r] = {} /\ loaded'[r] \subseteq present'
    BY <1>0
  <2>4. Divides' /\ DOMAIN param'[r] = 0 .. param_size' - 1
    BY <1>1, <2>1, <2>2
  <2>5. \A i \in DOMAIN param'[r] : param'[r][i] = Empty
    BY <2>1
  <2> QED
    BY <2>3, <2>4, <2>5 DEF RankInv
<1>2. CASE UNCHANGED param
  BY <1>0, <1>2, OtherRank
<1> QED
  BY <1>1, <1>2 DEF Construct

LEMMA LoadRank ==
  ASSUME LoadInv, NEW r \in Ranks, NEW s \in Shards, Load(r, s)
  PROVE  RankInv(r)'
<1>0. /\ config' = config /\ present' = present /\ config \in Configs
      /\ param[r] # <<>> /\ RankInv(r) /\ Divides /\ s \in present \ loaded[r]
      /\ DOMAIN param[r] = 0 .. param_size - 1
      /\ present \subseteq Shards /\ loaded[r] \subseteq Shards
  BY DEF Load, LoadInv, RankInv
<1>1. CASE LoaderRaises(s, r)
  <2>1. UNCHANGED <<param, loaded>>
    BY <1>1 DEF Load
  <2> QED
    BY <1>0, <2>1, OtherRank
<1>2. CASE ~LoaderRaises(s, r)
  <2>1. /\ param' = [param EXCEPT ![r] =
                       [i \in DOMAIN param[r] |->
                          IF i \in Places(s) THEN <<s, Row(s, r, i - shard_offset(s))>>
                          ELSE param[r][i]]]
        /\ loaded' = [loaded EXCEPT ![r] = loaded[r] \cup {s}]
    BY <1>2 DEF Load, Places, Row
  <2>2. /\ DOMAIN param'[r] = 0 .. param_size - 1
        /\ \A i \in 0 .. param_size - 1 :
             param'[r][i] = IF i \in Places(s) THEN <<s, Row(s, r, i - shard_offset(s))>>
                            ELSE param[r][i]
    BY <1>0, <2>1 DEF LoadInv
  <2>3. loaded'[r] = loaded[r] \cup {s}
    BY <2>1 DEF LoadInv
  <2>4. param'[r] # <<>>
    <3>1. 0 \in DOMAIN param'[r]
      BY <1>0, <2>2, ShardsApart
    <3> QED
      BY <3>1
  <2>5. /\ Places(s) \subseteq 0 .. param_size - 1
        /\ \A t \in loaded[r] : Places(t) \subseteq 0 .. param_size - 1 /\ Places(t) \cap Places(s) = {}
    BY <1>0, PlacesApart
  <2>6. \A t \in loaded'[r] :
          /\ ~LoaderRaises(t, r)
          /\ \A i \in Places(t) : param'[r][i] = <<t, Row(t, r, i - shard_offset(t))>>
    <3>1. ASSUME NEW t \in loaded[r]
          PROVE  /\ ~LoaderRaises(t, r)
                 /\ \A i \in Places(t) : param'[r][i] = <<t, Row(t, r, i - shard_offset(t))>>
      <4>1. \A i \in Places(t) : i \in 0 .. param_size - 1 /\ i \notin Places(s)
        BY <2>5
      <4>2. /\ ~LoaderRaises(t, r)
            /\ \A i \in Places(t) : param[r][i] = <<t, Row(t, r, i - shard_offset(t))>>
        BY <1>0 DEF RankInv
      <4> QED
        BY <2>2, <4>1, <4>2
    <3>2. \A i \in Places(s) : param'[r][i] = <<s, Row(s, r, i - shard_offset(s))>>
      BY <2>2, <2>5
    <3> QED
      BY <1>2, <2>3, <3>1, <3>2
  <2>7. \A i \in 0 .. param_size - 1 :
          (\A t \in loaded'[r] : i \notin Places(t)) => param'[r][i] = Empty
    BY <1>0, <2>2, <2>3 DEF RankInv
  <2>8. \A t : Places(t)' = Places(t) /\ shard_offset(t)' = shard_offset(t)
    BY <1>0, SameRows, SameSizes
  <2>9. \A t : LoaderRaises(t, r)' <=> LoaderRaises(t, r)
    BY <1>0, SameRows
  <2>10. \A t, k : Row(t, r, k)' = Row(t, r, k)
    BY <1>0, SameRows
  <2>11. param_size' = param_size /\ (Divides' <=> Divides)
    BY <1>0, SameSizes
  <2>12. \A t \in loaded'[r] :
           /\ ~LoaderRaises(t, r)'
           /\ \A i \in Places(t)' : param'[r][i] = <<t, Row(t, r, i - shard_offset(t))'>>
    BY <2>6, <2>8, <2>9, <2>10
  <2>13. \A i \in DOMAIN param'[r] :
           (\A t \in loaded'[r] : i \notin Places(t)') => param'[r][i] = Empty
    BY <2>2, <2>7, <2>8
  <2>14. loaded'[r] \subseteq present'
    BY <1>0, <2>3 DEF RankInv
  <2> QED
    BY <1>0, <2>2, <2>4, <2>8, <2>11, <2>12, <2>13, <2>14 DEF RankInv
<1> QED
  BY <1>1, <1>2

(* Whatever the order in which load_model meets the shards, every rank's      *)
(* parameter holds the rows that its loaded shards put into it and nothing   *)
(* else, and a rank has failed only if the constructor or a weight_loader    *)
(* raises for this layer.                                                    *)
THEOREM LoadInvariant == ShardingSpec => []LoadInv
<1>1. ShardingInit => LoadInv
  <2> SUFFICES ASSUME ShardingInit PROVE LoadInv
    OBVIOUS
  <2>1. /\ config \in Configs /\ present \subseteq Shards /\ failed = {}
        /\ DOMAIN param = Ranks /\ DOMAIN loaded = Ranks
        /\ \A r \in Ranks : param[r] = <<>> /\ loaded[r] = {}
    BY DEF ShardingInit
  <2>2. \A i \in DOMAIN <<>> : FALSE
    OBVIOUS
  <2>3. \A r \in Ranks : RankInv(r)
    BY <2>1, <2>2 DEF RankInv
  <2> QED
    BY <2>1, <2>3 DEF LoadInv
<1>2. LoadInv /\ [ShardingNext]_shardingVars => LoadInv'
  <2> SUFFICES ASSUME LoadInv, [ShardingNext]_shardingVars PROVE LoadInv'
    OBVIOUS
  <2>1. ASSUME config' = config, present' = present, DOMAIN param' = Ranks, DOMAIN loaded' = Ranks,
               \A r \in Ranks : RankInv(r)',
               failed' \subseteq Ranks,
               failed' # {} => ~Divides \/ \E s \in Shards, r \in Ranks : LoaderRaises(s, r)
        PROVE  LoadInv'
    <3>1. Ranks' = Ranks /\ Shards' = Shards /\ (Divides' <=> Divides)
      BY <2>1, SameSizes
    <3>2. \A s, r : LoaderRaises(s, r)' <=> LoaderRaises(s, r)
      BY <2>1, SameRows
    <3>3. config' \in Configs /\ present' \subseteq Shards'
      BY <2>1, <3>1 DEF LoadInv
    <3> QED
      BY <2>1, <3>1, <3>2, <3>3 DEF LoadInv
  <2>2. ASSUME NEW r \in Ranks, Construct(r) PROVE LoadInv'
    <3>1. config' = config /\ present' = present
      BY <2>2 DEF Construct
    <3>2. DOMAIN param' = Ranks /\ DOMAIN loaded' = Ranks
      BY <2>2 DEF Construct, LoadInv
    <3>3. \A q \in Ranks \ {r} : param'[q] = param[q] /\ loaded'[q] = loaded[q]
      BY <2>2 DEF Construct, LoadInv
    <3>4. \A q \in Ranks \ {r} : RankInv(q)'
      BY <3>1, <3>3, OtherRank DEF LoadInv
    <3>5. RankInv(r)'
      BY <2>2, ConstructRank
    <3>6. failed' = failed \/ (~Divides /\ failed' = failed \cup {r})
      BY <2>2 DEF Construct
    <3>7. /\ failed' \subseteq Ranks
          /\ failed' # {} => ~Divides \/ \E s \in Shards, q \in Ranks : LoaderRaises(s, q)
      BY <3>6 DEF LoadInv
    <3> QED
      BY <2>1, <3>1, <3>2, <3>4, <3>5, <3>7
  <2>3. ASSUME NEW r \in Ranks, NEW s \in Shards, Load(r, s) PROVE LoadInv'
    <3>1. config' = config /\ present' = present
      BY <2>3 DEF Load
    <3>2. DOMAIN param' = Ranks /\ DOMAIN loaded' = Ranks
      BY <2>3 DEF Load, LoadInv
    <3>3. \A q \in Ranks \ {r} : param'[q] = param[q] /\ loaded'[q] = loaded[q]
      BY <2>3 DEF Load, LoadInv
    <3>4. \A q \in Ranks \ {r} : RankInv(q)'
      BY <3>1, <3>3, OtherRank DEF LoadInv
    <3>5. RankInv(r)'
      BY <2>3, LoadRank
    <3>6. failed' = failed \/ (LoaderRaises(s, r) /\ failed' = failed \cup {r})
      BY <2>3 DEF Load
    <3>7. /\ failed' \subseteq Ranks
          /\ failed' # {} => ~Divides \/ \E t \in Shards, q \in Ranks : LoaderRaises(t, q)
      BY <3>6 DEF LoadInv
    <3> QED
      BY <2>1, <3>1, <3>2, <3>4, <3>5, <3>7
  <2>4. CASE UNCHANGED shardingVars
    <3>1. config' = config /\ present' = present /\ param' = param /\ loaded' = loaded /\ failed' = failed
      BY <2>4 DEF shardingVars
    <3>2. \A r \in Ranks : RankInv(r)'
      BY <3>1, OtherRank DEF LoadInv
    <3>3. /\ DOMAIN param' = Ranks /\ DOMAIN loaded' = Ranks /\ failed' \subseteq Ranks
          /\ failed' # {} => ~Divides \/ \E s \in Shards, r \in Ranks : LoaderRaises(s, r)
      BY <3>1 DEF LoadInv
    <3> QED
      BY <2>1, <3>1, <3>2, <3>3
  <2> QED
    BY <2>2, <2>3, <2>4 DEF ShardingNext
<1> QED
  BY <1>1, <1>2, PTL DEF ShardingSpec

-----------------------------------------------------------------------------
(* What follows for a parameter.                                           *)

\* A row in a place of the parameter.
LEMMA PlaceHolds ==
  ASSUME LoadInv, NEW r \in Ranks, NEW i \in DOMAIN param[r]
  PROVE  /\ Divides /\ DOMAIN param[r] = 0 .. param_size - 1
         /\ \/ param[r][i] = Empty /\ \A s \in loaded[r] : i \notin Places(s)
            \/ \E s \in loaded[r] :
                 /\ s \in Shards /\ s \in present /\ i \in Places(s)
                 /\ ~LoaderRaises(s, r)
                 /\ i - shard_offset(s) \in 0 .. shard_size(s) - 1
                 /\ param[r][i] = <<s, Row(s, r, i - shard_offset(s))>>
                 /\ Row(s, r, i - shard_offset(s)) \in 0 .. sizes[s] - 1
<1>0. RankInv(r) /\ config \in Configs /\ present \subseteq Shards
  BY DEF LoadInv
<1>1. param[r] # <<>>
  <2>1. \A j \in DOMAIN <<>> : FALSE
    OBVIOUS
  <2> QED
    BY <2>1
<1>2. Divides /\ DOMAIN param[r] = 0 .. param_size - 1
  BY <1>0, <1>1 DEF RankInv
<1>3. ASSUME NEW s \in loaded[r], i \in Places(s)
      PROVE  /\ s \in Shards /\ s \in present
             /\ ~LoaderRaises(s, r)
             /\ i - shard_offset(s) \in 0 .. shard_size(s) - 1
             /\ param[r][i] = <<s, Row(s, r, i - shard_offset(s))>>
             /\ Row(s, r, i - shard_offset(s)) \in 0 .. sizes[s] - 1
  <2>1. s \in Shards /\ s \in present /\ ~LoaderRaises(s, r)
    BY <1>0 DEF RankInv
  <2>2. param[r][i] = <<s, Row(s, r, i - shard_offset(s))>>
    BY <1>0, <1>3 DEF RankInv
  <2>3. shard_offset(s) \in Nat /\ shard_size(s) \in Nat
    BY <1>0, <1>2, <2>1, ShardsApart
  <2>4. i - shard_offset(s) \in 0 .. shard_size(s) - 1
    BY <1>3, <2>3 DEF Places, Interval
  <2> QED
    BY <1>0, <1>2, <2>1, <2>2, <2>4, RowInSource
<1>4. (\A s \in loaded[r] : i \notin Places(s)) => param[r][i] = Empty
  BY <1>0 DEF RankInv
<1> QED
  BY <1>2, <1>3, <1>4

(***************************************************************************)
(* A row of the parameter is uninitialised or a row of a shard the rank    *)
(* has loaded, for every layer and number of ranks: no loader reads        *)
(* outside a weight.                                                       *)
(***************************************************************************)
THEOREM ShardingTypeCorrect == ShardingSpec => []ShardingTypeOK
<1>1. LoadInv => ShardingTypeOK
  <2> SUFFICES ASSUME LoadInv PROVE ShardingTypeOK
    OBVIOUS
  <2>1. ASSUME NEW r \in Ranks, NEW i \in DOMAIN param[r]
        PROVE  \/ param[r][i] = Empty
               \/ param[r][i][1] \in loaded[r] /\ param[r][i][2] \in 0 .. sizes[param[r][i][1]] - 1
    <3>1. CASE param[r][i] = Empty
      BY <3>1
    <3>2. CASE param[r][i] # Empty
      <4>1. PICK s \in loaded[r] : /\ param[r][i] = <<s, Row(s, r, i - shard_offset(s))>>
                                   /\ Row(s, r, i - shard_offset(s)) \in 0 .. sizes[s] - 1
        BY <3>2, PlaceHolds
      <4>2. param[r][i][1] = s /\ param[r][i][2] = Row(s, r, i - shard_offset(s))
        BY <4>1
      <4> QED
        BY <4>1, <4>2
    <3> QED
      BY <3>1, <3>2
  <2>2. \A r \in Ranks : loaded[r] \subseteq present
    BY DEF LoadInv, RankInv
  <2> QED
    BY <2>1, <2>2 DEF ShardingTypeOK, LoadInv
<1> QED
  BY <1>1, LoadInvariant, PTL

\* What all ranks have loaded can be divided.
LEMMA LoadedEven ==
  ASSUME LoadInv, Complete = Ranks
  PROVE  /\ Divides
         /\ \A s \in present :
              /\ s \in Shards
              /\ config.kind # "row bias"
              /\ ~Whole => sizes[s] % tp_size = 0
              /\ \A r \in Ranks : s \in loaded[r] /\ ~LoaderRaises(s, r)
<1>0. config \in Configs /\ present \subseteq Shards
  BY DEF LoadInv
<1>1. \A r \in Ranks : param[r] # <<>> /\ loaded[r] = present /\ RankInv(r)
  BY DEF Complete, LoadInv
<1>2. 0 \in Ranks
  BY <1>0, ConfigType DEF Ranks
<1>3. Divides
  BY <1>1, <1>2 DEF RankInv
<1>4. ASSUME NEW s \in present
      PROVE  /\ s \in Shards
             /\ config.kind # "row bias"
             /\ ~Whole => sizes[s] % tp_size = 0
             /\ \A r \in Ranks : s \in loaded[r] /\ ~LoaderRaises(s, r)
  <2>1. s \in Shards /\ \A r \in Ranks : s \in loaded[r] /\ ~LoaderRaises(s, r)
    BY <1>0, <1>1 DEF RankInv
  <2>2. config.kind # "row bias"
    BY <1>2, <2>1 DEF LoaderRaises
  <2>3. ASSUME ~Whole PROVE sizes[s] % tp_size = 0
    <3>1. CASE Packed
      <4>1. SUFFICES ASSUME sizes[s] % tp_size # 0 PROVE FALSE
        OBVIOUS
      <4>2. PICK size \in Nat, tp \in Nat \ {0} : size = sizes[s] /\ tp = tp_size
        BY <1>0, <2>1, ConfigType
      <4>3. size % tp # 0
        BY <4>1, <4>2
      <4>4. PICK r \in 0 .. tp - 1 : ~Copies(ChunkOf(size, tp, r), size \div tp)
        BY <4>3, UnevenNeverLoads
      <4>5. r \in Ranks
        BY <4>2 DEF Ranks
      <4>6. Source(s, r) = ChunkOf(size, tp, r)
        BY <2>3, <3>1, <4>2 DEF Source
      <4>7. shard_size(s) = size \div tp
        BY <1>0, <1>3, <2>1, <2>3, <4>2, ShardSizes
      <4> QED
        BY <2>1, <4>4, <4>5, <4>6, <4>7 DEF LoaderRaises
    <3>2. CASE ~Packed
      BY <1>0, <1>3, <2>1, <2>3, <3>2, ShardSizes
    <3> QED
      BY <3>1, <3>2
  <2> QED
    BY <2>1, <2>2, <2>3
<1> QED
  BY <1>3, <1>4

(***************************************************************************)
(* For every layer and number of ranks, the model loads exactly if every   *)
(* weight and every number of heads can be divided; what the constructors  *)
(* assert of merged weights is less, and a bias of a RowParallelLinear     *)
(* never loads.                                                            *)
(***************************************************************************)
THEOREM LoadsExactlyDivisible == ShardingSpec => []LoadsExactly
<1> DEFINE loadable == /\ config.kind # "row bias"
                       /\ Whole \/ \A s \in Shards : sizes[s] % tp_size = 0
                       /\ config.kind = "qkv" => \A s \in Shards : Heads(s) % tp_size = 0
<1>1. ASSUME LoadInv, loadable PROVE failed = {}
  <2>0. config \in Configs /\ Shards = 1 .. Len(sizes) /\ Len(sizes) \in Nat
    BY <1>1, ConfigType DEF LoadInv
  <2>1. Divides
    <3>1. CASE Whole
      BY <1>1, <3>1 DEF Divides
    <3>2. CASE ~Whole
      <4>1. Len(sizes) \in 0 .. Len(sizes) /\ \A s \in 1 .. Len(sizes) : sizes[s] % tp_size = 0
        <5>1. \A s \in Shards : sizes[s] % tp_size = 0
          BY <1>1, <3>2
        <5>2. Len(sizes) \in 0 .. Len(sizes)
          BY <2>0
        <5> QED
          BY <2>0, <5>1, <5>2, Zenon
      <4>2. SumUpTo(Len(sizes)) % tp_size = 0
        BY <2>0, <4>1, EvenSums
      <4> QED
        BY <1>1, <4>2 DEF Divides, OutputSize
    <3> QED
      BY <3>1, <3>2
  <2>2. ASSUME NEW s \in Shards, NEW r \in Ranks PROVE ~LoaderRaises(s, r)
    <3>1. CASE Whole
      <4>1. PICK size \in Nat \ {0} : size = sizes[s]
        BY <2>0, ConfigType
      <4>2. Source(s, r) = 0 .. size - 1 /\ shard_size(s) = size
        BY <2>0, <2>1, <3>1, <4>1, ShardSizes DEF Source
      <4>3. 0 .. size - 1 # {} /\ Cardinality(0 .. size - 1) = size
        <5>1. 0 <= size - 1 /\ size - 1 \in Int
          OBVIOUS
        <5>2. Cardinality(0 .. size - 1) = (size - 1) - 0 + 1
          BY <5>1, FS_Interval
        <5>3. 0 \in 0 .. size - 1
          OBVIOUS
        <5>4. (size - 1) - 0 + 1 = size
          OBVIOUS
        <5>5. 0 .. size - 1 # {}
          BY <5>3, Zenon
        <5> QED
          BY <5>2, <5>4, <5>5
      <4> QED
        BY <1>1, <4>2, <4>3 DEF LoaderRaises, Copies
    <3>2. CASE ~Whole
      <4>1. sizes[s] % tp_size = 0
        BY <1>1, <3>2
      <4> QED
        BY <2>0, <2>1, <3>2, <4>1, EvenRows
    <3> QED
      BY <3>1, <3>2
  <2> QED
    BY <1>1, <2>1, <2>2 DEF LoadInv
<1>2. ASSUME LoadInv, present = Shards, Complete \cup failed = Ranks, failed = {} PROVE loadable
  <2>1. Complete = Ranks
    BY <1>2
  <2>2. config \in Configs
    BY <1>2 DEF LoadInv
  <2>3. Divides /\ \A s \in Shards : config.kind # "row bias" /\ (~Whole => sizes[s] % tp_size = 0)
    BY <1>2, <2>1, LoadedEven
  <2>4. 1 \in Shards
    BY <2>2, ConfigType
  <2> QED
    BY <2>3, <2>4 DEF Divides
<1>3. LoadInv => LoadsExactly
  <2> HIDE DEF loadable
  <2>1. LoadInv => /\ loadable => failed = {}
                   /\ present = Shards /\ Complete \cup failed = Ranks /\ failed = {} => loadable
    BY <1>1, <1>2
  <2> QED
    BY <2>1 DEF LoadsExactly, loadable
<1> QED
  BY <1>3, LoadInvariant, PTL

\* When all ranks have loaded a divided weight, rank r has its slice, in order.
LEMMA DividedShape ==
  ASSUME LoadInv, Complete = Ranks, ~Whole, NEW s \in present, NEW r \in Ranks,
         NEW L, L = sizes[s] \div tp_size
  PROVE  /\ L \in Nat \ {0} /\ sizes[s] = L * tp_size
         /\ DOMAIN param[r] = 0 .. param_size - 1
         /\ Places(s) = shard_offset(s) .. shard_offset(s) + L - 1
         /\ Places(s) \subseteq 0 .. param_size - 1
         /\ shard_offset(s) \in Nat
<1>0. /\ config \in Configs /\ RankInv(r)
      /\ Divides /\ s \in Shards /\ sizes[s] % tp_size = 0
  BY LoadedEven DEF LoadInv, Complete
<1>1. L \in Nat \ {0} /\ sizes[s] = L * tp_size /\ shard_size(s) = L
  BY <1>0, EvenRows
<1>2. DOMAIN param[r] = 0 .. param_size - 1
  <2>1. param[r] # <<>>
    BY DEF Complete
  <2> QED
    BY <1>0, <2>1 DEF RankInv
<1>3. PICK off \in Nat : off = shard_offset(s)
  BY <1>0, ShardsApart
<1>4. Places(s) = off .. off + L - 1 /\ Places(s) \subseteq 0 .. param_size - 1
  BY <1>0, <1>1, <1>3, PlacesApart DEF Places, Interval
<1> QED
  BY <1>1, <1>2, <1>3, <1>4

LEMMA DividedRows ==
  ASSUME LoadInv, Complete = Ranks, ~Whole, NEW s \in present, NEW r \in Ranks,
         NEW L, L = sizes[s] \div tp_size
  PROVE  /\ \A k \in 0 .. L - 1 : param[r][shard_offset(s) + k] = <<s, r * L + k>>
         /\ \A j \in 0 .. param_size - 1, i \in Nat :
              param[r][j] = <<s, i>> => \E k \in 0 .. L - 1 : j = shard_offset(s) + k /\ i = r * L + k
<1>0. /\ config \in Configs /\ RankInv(r) /\ param[r] # <<>> /\ s \in loaded[r]
      /\ Divides /\ s \in Shards /\ sizes[s] % tp_size = 0
  BY LoadedEven DEF LoadInv, Complete
<1>1. /\ L \in Nat \ {0} /\ sizes[s] = L * tp_size /\ shard_size(s) = L
      /\ \A k \in 0 .. L - 1 : Row(s, r, k) = r * L + k
  BY <1>0, EvenRows
<1>2. DOMAIN param[r] = 0 .. param_size - 1
  BY <1>0 DEF RankInv
<1>3. PICK off \in Nat : off = shard_offset(s)
  BY <1>0, ShardsApart
<1>4. Places(s) = off .. off + L - 1
  BY <1>3, DividedShape
<1>5. \A i \in Places(s) : param[r][i] = <<s, Row(s, r, i - off)>>
  BY <1>0, <1>3 DEF RankInv
<1>6. ASSUME NEW k \in 0 .. L - 1
      PROVE  param[r][off + k] = <<s, r * L + k>>
  <2>0. L \in Nat
    BY <1>1
  <2>1. off + k \in Places(s) /\ (off + k) - off = k
    BY <2>0, <1>3, <1>4
  <2> QED
    BY <1>1, <1>5, <2>1
<1>7. ASSUME NEW j \in 0 .. param_size - 1, NEW i \in Nat, param[r][j] = <<s, i>>
      PROVE  \E k \in 0 .. L - 1 : j = off + k /\ i = r * L + k
  <2>1. s \in Nat
    BY <1>0, ConfigType
  <2>2. <<s, i>> # Empty
    BY <2>1, ShardingAssumption
  <2>3. PICK t \in loaded[r] : /\ j \in Places(t)
                               /\ j - shard_offset(t) \in 0 .. shard_size(t) - 1
                               /\ param[r][j] = <<t, Row(t, r, j - shard_offset(t))>>
    BY <1>2, <1>7, <2>2, PlaceHolds
  <2>4. t = s /\ i = Row(s, r, j - off)
    BY <1>3, <1>7, <2>3
  <2>5. j - off \in 0 .. L - 1 /\ j = off + (j - off)
    BY <1>1, <1>3, <2>3, <2>4
  <2> QED
    BY <1>1, <2>4, <2>5
<1>8. \A k \in 0 .. L - 1 : param[r][shard_offset(s) + k] = <<s, r * L + k>>
  BY <1>3, <1>6
<1>9. \A j \in 0 .. param_size - 1, i \in Nat :
        param[r][j] = <<s, i>> => \E k \in 0 .. L - 1 : j = shard_offset(s) + k /\ i = r * L + k
  BY <1>3, <1>7
<1> QED
  BY <1>8, <1>9

\* A parameter that is whole on every rank has its weight on every rank.
LEMMA WholeRows ==
  ASSUME LoadInv, Complete = Ranks, Whole, NEW s \in present, NEW r \in Ranks
  PROVE  /\ s = 1 /\ Shards = {1} /\ param_size = sizes[s]
         /\ DOMAIN param[r] = 0 .. sizes[s] - 1
         /\ \A j \in 0 .. sizes[s] - 1 : param[r][j] = <<s, j>>
<1>0. /\ config \in Configs /\ RankInv(r) /\ param[r] # <<>> /\ s \in loaded[r]
      /\ Divides /\ s \in Shards
  BY LoadedEven DEF LoadInv, Complete
<1>1. PICK size \in Nat \ {0} : size = sizes[s]
  BY <1>0, ConfigType
<1>2. /\ s = 1 /\ Shards = {1} /\ shard_offset(s) = 0 /\ shard_size(s) = size /\ param_size = size
  BY <1>0, <1>1, ShardSizes
<1>3. DOMAIN param[r] = 0 .. size - 1
  BY <1>0, <1>2 DEF RankInv
<1>4. Places(s) = 0 .. size - 1
  BY <1>2 DEF Places, Interval
<1>5. Source(s, r) = 0 .. size - 1 /\ Min(0 .. size - 1) = 0 /\ Cardinality(0 .. size - 1) = size
  <2>1. 0 <= size - 1 /\ size - 1 \in Int /\ (size - 1) - 0 + 1 = size
    OBVIOUS
  <2>2. Min(0 .. size - 1) = 0 /\ Cardinality(0 .. size - 1) = (size - 1) - 0 + 1
    BY <2>1, IntervalMin
  <2>3. Source(s, r) = 0 .. size - 1
    BY <1>1 DEF Source
  <2> QED
    BY <2>1, <2>2, <2>3
<1>6. ASSUME NEW j \in 0 .. size - 1
      PROVE  param[r][j] = <<s, j>>
  <2>1. param[r][j] = <<s, Row(s, r, j - 0)>>
    BY <1>0, <1>2, <1>4 DEF RankInv
  <2>2. j - 0 = j /\ Row(s, r, j) = IF size = 1 THEN 0 ELSE 0 + j
    BY <1>5 DEF Row
  <2> QED
    BY <2>1, <2>2
<1> QED
  BY <1>1, <1>2, <1>3, <1>6

\* If every weight can be divided, the places leave no gap.
LEMMA PlacesCover ==
  ASSUME config \in Configs, Divides, ~Whole, \A s \in Shards : sizes[s] % tp_size = 0,
         NEW j \in 0 .. param_size - 1
  PROVE  \E s \in Shards : j \in Places(s)
<1> DEFINE last == Len(sizes)
           I == {n \in Nat : n <= last /\ j < SumUpTo(n) \div tp_size =>
                               \E s \in 1 .. n : j \in Places(s)}
<1>0. last \in Nat /\ Shards = 1 .. last
  BY ConfigType
<1>1. PICK tp \in Nat \ {0} : tp = tp_size
  BY ConfigType
<1>2. j \in Nat
  BY ShardsApart, <1>0
<1>3. 0 \in I
  <2>1. SumUpTo(0) = 0 /\ 0 \div tp = 0
    BY SumSteps
  <2> QED
    BY <1>1, <1>2, <2>1
<1>4. ASSUME NEW n \in I PROVE n + 1 \in I
  <2>1. ASSUME n + 1 <= last, j < SumUpTo(n + 1) \div tp_size
        PROVE  \E s \in 1 .. n + 1 : j \in Places(s)
    <3>1. n \in Nat /\ n \in 0 .. last /\ n + 1 \in 1 .. last /\ ((n + 1) - 1) = n /\ n + 1 \in Shards
      BY <1>0, <2>1
    <3>2. PICK a \in Nat, b \in Nat : a = SumUpTo(n) /\ b = sizes[n + 1] /\ b % tp = 0
      BY <1>1, <3>1, SumSteps, ConfigType
    <3>3. SumUpTo(n + 1) = a + b
      BY <3>1, <3>2, SumSteps
    <3>4. a \div tp \in Nat /\ b \div tp \in Nat /\ (a + b) \div tp = a \div tp + b \div tp
      <4>1. b % tp = 0
        BY <3>2
      <4>2. b \div tp \in Nat /\ (a + b) \div tp = a \div tp + b \div tp
        BY <4>1, DivAddsEven
      <4>3. a \div tp \in Nat
        OBVIOUS
      <4> QED
        BY <4>2, <4>3
    <3>5. shard_offset(n + 1) = a \div tp /\ shard_size(n + 1) = b \div tp
      BY <1>1, <3>1, <3>2, ShardSizes
    <3>6. CASE j < a \div tp
      <4>1. PICK s \in 1 .. n : j \in Places(s)
        BY <1>1, <3>1, <3>2, <3>6
      <4> QED
        BY <3>1, <4>1
    <3>7. CASE ~(j < a \div tp)
      <4>1. PICK p \in Nat, q \in Nat : p = a \div tp /\ q = b \div tp
        BY <3>4
      <4>2. j < p + q
        BY <1>1, <2>1, <3>3, <3>4, <4>1
      <4>3. Places(n + 1) = p .. p + q - 1
        BY <3>5, <4>1 DEF Places, Interval
      <4>4. j \in Places(n + 1)
        BY <1>2, <3>7, <4>1, <4>2, <4>3
      <4> QED
        BY <3>1, <4>4
    <3> QED
      BY <3>6, <3>7
  <2> QED
    BY <2>1
<1>5. I = Nat
  BY <1>3, <1>4, NumbersFromZero
<1>6. param_size = SumUpTo(last) \div tp_size /\ param_size \in Nat
  BY <1>0, ShardSizes, ShardsApart, ConfigType
<1>7. \E s \in 1 .. last : j \in Places(s)
  BY <1>0, <1>2, <1>5, <1>6
<1> QED
  BY <1>0, <1>7

\* Where row i of a divided weight is.
LEMMA OnePlace ==
  ASSUME LoadInv, Complete = Ranks, ~Whole, NEW s \in present, NEW i \in 0 .. sizes[s] - 1
  PROVE  \E x : {at \in Ranks \X (0 .. param_size - 1) : param[at[1]][at[2]] = <<s, i>>} = {x}
<1> DEFINE places == {at \in Ranks \X (0 .. param_size - 1) : param[at[1]][at[2]] = <<s, i>>}
<1>1. config \in Configs /\ s \in Shards
  BY DEF LoadInv
<1>2. PICK tp \in Nat \ {0} : tp = tp_size /\ Ranks = 0 .. tp - 1
  BY <1>1, ConfigType DEF Ranks
<1>3. PICK L : L = sizes[s] \div tp_size
  OBVIOUS
<1>4. L \in Nat \ {0} /\ sizes[s] = L * tp
  <2>1. 0 \in Ranks
    BY <1>2
  <2> QED
    BY <1>2, <1>3, <2>1, DividedShape
<1>5. i \in Nat /\ i < L * tp
  <2>1. sizes[s] \in Nat
    BY <1>1, ConfigType
  <2> QED
    BY <1>4, <2>1
<1>6. PICK q \in Nat, k \in 0 .. L - 1 : i = L * q + k
  <2>1. i \div L \in Nat /\ i % L \in 0 .. L - 1 /\ i = L * (i \div L) + (i % L)
    BY <1>4, <1>5, DivMod
  <2> QED
    BY <2>1
<1>7. q \in Ranks
  <2>1. SUFFICES ASSUME q >= tp PROVE FALSE
    BY <1>2
  <2>2. L * q >= L * tp
    BY <1>2, <1>4, <2>1
  <2>3. L * q \in Nat /\ L * tp \in Nat
    BY <1>2, <1>4
  <2> QED
    BY <1>5, <1>6, <2>2, <2>3
<1>8. PICK off : off = shard_offset(s)
  OBVIOUS
<1>9. q * L + k = i
  BY <1>4, <1>6
<1>10. off + k \in 0 .. param_size - 1 /\ param[q][off + k] = <<s, i>>
  <2>1. /\ off \in Nat
        /\ Places(s) = off .. off + L - 1 /\ Places(s) \subseteq 0 .. param_size - 1
        /\ \A j \in 0 .. L - 1 : param[q][off + j] = <<s, q * L + j>>
    <3>1. /\ off \in Nat
          /\ Places(s) = off .. off + L - 1 /\ Places(s) \subseteq 0 .. param_size - 1
      BY <1>3, <1>7, <1>8, DividedShape
    <3>2. \A j \in 0 .. L - 1 : param[q][off + j] = <<s, q * L + j>>
      BY <1>3, <1>7, <1>8, DividedRows
    <3> QED
      BY <3>1, <3>2
  <2>2. L \in Nat
    BY <1>4
  <2>3. off + k \in Places(s)
    BY <2>1, <2>2
  <2> QED
    BY <1>9, <2>1, <2>3
<1>11. ASSUME NEW r \in Ranks, NEW j \in 0 .. param_size - 1, param[r][j] = <<s, i>>
       PROVE  r = q /\ j = off + k
  <2>1. PICK m \in 0 .. L - 1 : j = off + m /\ i = r * L + m
    <3>1. \A a \in 0 .. param_size - 1, c \in Nat :
            param[r][a] = <<s, c>> => \E m \in 0 .. L - 1 : a = shard_offset(s) + m /\ c = r * L + m
      BY <1>3, DividedRows
    <3> QED
      BY <1>5, <1>8, <1>11, <3>1
  <2>2. r \in Nat /\ L \in Nat \ {0}
    BY <1>2, <1>4
  <2>3. (r * L + m) \div L = r /\ (q * L + k) \div L = q
    BY <2>2, DivUnique
  <2>4. r = q
    BY <1>9, <2>1, <2>3
  <2>5. r * L \in Nat
    BY <2>2
  <2>6. m = k
    BY <1>9, <2>1, <2>4, <2>5
  <2> QED
    BY <2>1, <2>4, <2>6
<1>12. places = {<<q, off + k>>}
  <2>1. <<q, off + k>> \in places
    BY <1>7, <1>10
  <2>2. ASSUME NEW at \in places PROVE at = <<q, off + k>>
    <3>1. at = <<at[1], at[2]>> /\ at[1] \in Ranks /\ at[2] \in 0 .. param_size - 1
          /\ param[at[1]][at[2]] = <<s, i>>
      OBVIOUS
    <3>2. at[1] = q /\ at[2] = off + k
      BY <1>11, <3>1
    <3> QED
      BY <3>1, <3>2
  <2> QED
    BY <2>1, <2>2
<1> QED
  BY <1>12

(***************************************************************************)
(* Whatever the layer and the number of ranks: when load_model returns on  *)
(* all ranks, each row of each weight is on exactly one rank, in one place *)
(* (on every rank, if the parameter is not divided), and nothing is left   *)
(* uninitialised if the checkpoint has every weight.                       *)
(***************************************************************************)
THEOREM EachRowLoadedOnce == ShardingSpec => []EachRowOnce
<1>1. ASSUME LoadInv, Complete = Ranks, NEW s \in present, NEW i \in 0 .. sizes[s] - 1
      PROVE  Cardinality({at \in Ranks \X (0 .. param_size - 1) : param[at[1]][at[2]] = <<s, i>>})
               = IF Whole THEN tp_size ELSE 1
  <2> DEFINE places == {at \in Ranks \X (0 .. param_size - 1) : param[at[1]][at[2]] = <<s, i>>}
  <2>1. CASE ~Whole
    <3>1. PICK x : places = {x}
      BY <1>1, <2>1, OnePlace
    <3> HIDE DEF places
    <3>2. Cardinality(places) = 1
      BY <3>1, FS_Singleton
    <3> QED
      BY <2>1, <3>2 DEF places
  <2>2. CASE Whole
    <3>1. \A r \in Ranks : /\ param_size = sizes[s]
                           /\ \A j \in 0 .. sizes[s] - 1 : param[r][j] = <<s, j>>
      BY <1>1, <2>2, WholeRows
    <3>2. ASSUME NEW at \in Ranks \X (0 .. param_size - 1)
          PROVE  param[at[1]][at[2]] = <<s, i>> <=> at[2] = i
      <4>1. at[1] \in Ranks /\ at[2] \in 0 .. sizes[s] - 1
        BY <3>1
      <4>2. param[at[1]][at[2]] = <<s, at[2]>>
        BY <3>1, <4>1
      <4> QED
        BY <4>2
    <3>3. \A r \in Ranks : i \in 0 .. param_size - 1
      BY <3>1
    <3>4. places = Ranks \X {i}
      <4>1. ASSUME NEW at \in places PROVE at \in Ranks \X {i}
        BY <3>2
      <4>2. ASSUME NEW at \in Ranks \X {i} PROVE at \in places
        <5>1. at \in Ranks \X (0 .. param_size - 1) /\ at[2] = i
          BY <3>3
        <5> QED
          BY <3>2, <5>1
      <4> QED
        BY <4>1, <4>2
    <3> HIDE DEF places
    <3>5. PICK tp \in Nat \ {0} : tp = tp_size /\ Ranks = 0 .. tp - 1
      BY <1>1, ConfigType DEF Ranks, LoadInv
    <3>6. IsFiniteSet(Ranks) /\ Cardinality(Ranks) = tp
      <4>1. 0 <= tp - 1 /\ tp - 1 \in Int /\ (tp - 1) - 0 + 1 = tp
        BY <3>5
      <4>2. IsFiniteSet(0 .. tp - 1) /\ Cardinality(0 .. tp - 1) = (tp - 1) - 0 + 1
        BY <4>1, FS_Interval
      <4> QED
        BY <3>5, <4>1, <4>2
    <3>7. IsFiniteSet({i}) /\ Cardinality({i}) = 1
      BY FS_Singleton
    <3>8. Cardinality(places) = Cardinality(Ranks) * Cardinality({i})
      BY <3>4, <3>6, <3>7, FS_Product
    <3>9. Cardinality(places) = tp_size
      BY <3>5, <3>6, <3>7, <3>8
    <3> QED
      BY <2>2, <3>9 DEF places
  <2> QED
    BY <2>1, <2>2
<1>2. ASSUME LoadInv, Complete = Ranks, present = Shards, NEW r \in Ranks, NEW j \in DOMAIN param[r]
      PROVE  param[r][j] # Empty
  <2>0. config \in Configs
    BY <1>2 DEF LoadInv
  <2>1. CASE Whole
    <3>1. 1 \in present
      BY <1>2, <2>0, ConfigType
    <3>2. sizes[1] \in Nat /\ j \in 0 .. sizes[1] - 1 /\ param[r][j] = <<1, j>>
      BY <1>2, <2>0, <2>1, <3>1, WholeRows, ConfigType
    <3>3. <<1, j>> # Empty
      BY <3>2, ShardingAssumption
    <3> QED
      BY <3>2, <3>3
  <2>2. CASE ~Whole
    <3>1. Divides /\ \A s \in Shards : sizes[s] % tp_size = 0
      BY <1>2, <2>2, LoadedEven
    <3>2. j \in 0 .. param_size - 1
      BY <1>2, PlaceHolds
    <3>3. PICK s \in Shards : j \in Places(s)
      BY <2>0, <2>2, <3>1, <3>2, PlacesCover
    <3>4. s \in loaded[r]
      BY <1>2 DEF Complete
    <3>5. PICK t \in loaded[r] : /\ t \in Shards
                                 /\ param[r][j] = <<t, Row(t, r, j - shard_offset(t))>>
                                 /\ Row(t, r, j - shard_offset(t)) \in 0 .. sizes[t] - 1
      BY <1>2, <3>3, <3>4, PlaceHolds
    <3>6. t \in Nat /\ Row(t, r, j - shard_offset(t)) \in Nat
      BY <2>0, <3>5, ConfigType
    <3> QED
      BY <3>5, <3>6, ShardingAssumption
  <2> QED
    BY <2>1, <2>2
<1>3. LoadInv => EachRowOnce
  BY <1>1, <1>2 DEF EachRowOnce
<1> QED
  BY <1>3, LoadInvariant, PTL

\* What place i of a rank holds.
LEMMA RowAtPlace ==
  ASSUME LoadInv, Complete = Ranks, present = Shards, ~Whole, NEW r \in Ranks,
         NEW i \in DOMAIN param[r]
  PROVE  \E s \in Shards : \E k \in 0 .. sizes[s] \div tp_size - 1 :
           /\ i = shard_offset(s) + k
           /\ param[r][i] = <<s, r * (sizes[s] \div tp_size) + k>>
<1>1. config \in Configs /\ Divides /\ \A s \in Shards : sizes[s] % tp_size = 0
  BY LoadedEven DEF LoadInv
<1>2. i \in 0 .. param_size - 1
  BY PlaceHolds
<1>3. PICK s \in Shards : i \in Places(s)
  BY <1>1, <1>2, PlacesCover
<1>4. PICK L : L = sizes[s] \div tp_size
  OBVIOUS
<1>5. /\ L \in Nat \ {0} /\ shard_offset(s) \in Nat
      /\ Places(s) = shard_offset(s) .. shard_offset(s) + L - 1
      /\ \A k \in 0 .. L - 1 : param[r][shard_offset(s) + k] = <<s, r * L + k>>
  BY <1>4, DividedShape, DividedRows
<1>6. PICK off \in Nat : off = shard_offset(s)
  BY <1>5
<1>7. i - off \in 0 .. L - 1 /\ i = off + (i - off)
  <2>1. L \in Nat /\ i \in off .. off + L - 1
    BY <1>3, <1>5, <1>6
  <2> QED
    BY <2>1
<1>8. PICK k \in 0 .. L - 1 : i = off + k
  BY <1>7
<1>9. param[r][i] = <<s, r * L + k>>
  BY <1>5, <1>6, <1>8
<1> QED
  BY <1>4, <1>6, <1>8, <1>9

LEMMA RowsInOrder ==
  ASSUME LoadInv, Complete = Ranks, present = Shards, ~Whole, NEW r \in Ranks,
         NEW i \in DOMAIN param[r], NEW j \in DOMAIN param[r], i < j
  PROVE  \/ param[r][i][1] < param[r][j][1]
         \/ param[r][i][1] = param[r][j][1] /\ param[r][i][2] < param[r][j][2]
<1>1. config \in Configs /\ Divides /\ \A u \in Shards : sizes[u] % tp_size = 0
  BY LoadedEven DEF LoadInv
<1>2. \A u \in Shards : sizes[u] \div tp_size \in Nat /\ shard_size(u) = sizes[u] \div tp_size
  BY <1>1, EvenRows
<1>3. PICK s \in Shards : \E k \in 0 .. sizes[s] \div tp_size - 1 :
        i = shard_offset(s) + k /\ param[r][i] = <<s, r * (sizes[s] \div tp_size) + k>>
  BY RowAtPlace
<1>4. PICK t \in Shards : \E k \in 0 .. sizes[t] \div tp_size - 1 :
        j = shard_offset(t) + k /\ param[r][j] = <<t, r * (sizes[t] \div tp_size) + k>>
  BY RowAtPlace
<1>5. PICK k \in 0 .. sizes[s] \div tp_size - 1 :
        i = shard_offset(s) + k /\ param[r][i] = <<s, r * (sizes[s] \div tp_size) + k>>
  BY <1>3
<1>6. PICK m \in 0 .. sizes[t] \div tp_size - 1 :
        j = shard_offset(t) + m /\ param[r][j] = <<t, r * (sizes[t] \div tp_size) + m>>
  BY <1>4
<1>7. s \in Nat /\ t \in Nat
  BY <1>1, ConfigType
<1>8. CASE s < t
  <2>1. param[r][i][1] = s /\ param[r][j][1] = t
    BY <1>5, <1>6
  <2> QED
    BY <1>8, <2>1
<1>9. CASE t < s
  <2>1. PICK a \in Nat, b \in Nat, c \in Nat, d \in Nat :
          a = shard_offset(s) /\ b = shard_offset(t) /\ c = shard_size(t) /\ d = shard_size(s)
    BY <1>1, ShardsApart
  <2>2. b + c <= a
    BY <1>1, <1>9, <2>1, ShardsApart
  <2>3. k \in 0 .. d - 1 /\ m \in 0 .. c - 1
    BY <1>2, <2>1
  <2>4. i = a + k /\ j = b + m
    BY <1>5, <1>6, <2>1
  <2> QED
    BY <2>2, <2>3, <2>4
<1>10. CASE s = t
  <2>1. PICK a \in Nat, p \in Int : a = shard_offset(s) /\ p = r * (sizes[s] \div tp_size)
    <3>1. r \in Int /\ sizes[s] \div tp_size \in Int
      BY <1>1, <1>2, ConfigType DEF Ranks
    <3>2. r * (sizes[s] \div tp_size) \in Int
      BY <3>1
    <3> QED
      BY <1>1, <3>2, ShardsApart
  <2>2. param[r][i] = <<s, p + k>> /\ param[r][j] = <<s, p + m>> /\ i = a + k /\ j = a + m
    BY <1>5, <1>6, <1>10, <2>1
  <2>3. k \in Int /\ m \in Int
    BY <1>2
  <2>4. k < m
    BY <2>1, <2>2, <2>3
  <2>5. param[r][i][1] = s /\ param[r][j][1] = s /\ param[r][i][2] = p + k /\ param[r][j][2] = p + m
    BY <2>2
  <2>6. p + k < p + m
    BY <2>1, <2>3, <2>4
  <2> QED
    BY <2>5, <2>6
<1> QED
  BY <1>7, <1>8, <1>9, <1>10

LEMMA RowsHeldAre ==
  ASSUME LoadInv, Complete = Ranks, present = Shards, ~Whole, NEW r \in Ranks, NEW s \in Shards
  PROVE  RowsHeld(r, s) = SliceOf(sizes[s] \div tp_size, r)
<1>1. PICK L : L = sizes[s] \div tp_size
  OBVIOUS
<1>2. /\ L \in Nat \ {0} /\ sizes[s] = L * tp_size
      /\ DOMAIN param[r] = 0 .. param_size - 1
      /\ Places(s) = shard_offset(s) .. shard_offset(s) + L - 1
      /\ Places(s) \subseteq 0 .. param_size - 1
      /\ shard_offset(s) \in Nat
      /\ \A k \in 0 .. L - 1 : param[r][shard_offset(s) + k] = <<s, r * L + k>>
      /\ \A j \in 0 .. param_size - 1, i \in Nat :
           param[r][j] = <<s, i>> => \E k \in 0 .. L - 1 : j = shard_offset(s) + k /\ i = r * L + k
  <2>1. /\ L \in Nat \ {0} /\ sizes[s] = L * tp_size
        /\ DOMAIN param[r] = 0 .. param_size - 1
        /\ Places(s) = shard_offset(s) .. shard_offset(s) + L - 1
        /\ Places(s) \subseteq 0 .. param_size - 1
        /\ shard_offset(s) \in Nat
    BY <1>1, DividedShape
  <2>2. /\ \A k \in 0 .. L - 1 : param[r][shard_offset(s) + k] = <<s, r * L + k>>
        /\ \A j \in 0 .. param_size - 1, i \in Nat :
             param[r][j] = <<s, i>> => \E k \in 0 .. L - 1 : j = shard_offset(s) + k /\ i = r * L + k
    BY <1>1, DividedRows
  <2> QED
    BY <2>1, <2>2
<1>3. PICK tp \in Nat \ {0} : tp = tp_size /\ r \in 0 .. tp - 1
  BY ConfigType DEF LoadInv, Ranks
<1>4. PICK off \in Nat : off = shard_offset(s)
  BY <1>2
<1>5. PICK p \in Nat : p = r * L
  <2>1. r * L \in Nat
    BY <1>2, <1>3
  <2> QED
    BY <2>1
<1>6. SliceOf(L, r) = p .. p + L - 1
  BY <1>5 DEF SliceOf, Interval
<1>7. p + L <= L * tp
  <2>1. L \in Nat /\ r \in Nat /\ r + 1 <= tp
    BY <1>2, <1>3
  <2>2. L * (r + 1) <= L * tp
    BY <1>3, <2>1
  <2>3. L * (r + 1) = r * L + L
    BY <2>1
  <2> QED
    BY <1>5, <2>2, <2>3
<1>8. PICK size \in Nat : size = sizes[s] /\ p + L <= size
  <2>1. sizes[s] \in Nat
    BY ConfigType DEF LoadInv
  <2> QED
    BY <1>2, <1>3, <1>7, <2>1
<1>9. L \in Nat
  BY <1>2
<1>10. ASSUME NEW i \in RowsHeld(r, s) PROVE i \in SliceOf(L, r)
  <2>1. i \in Nat /\ \E j \in 0 .. param_size - 1 : param[r][j] = <<s, i>>
    BY <1>2, <1>8 DEF RowsHeld
  <2>2. PICK k \in 0 .. L - 1 : i = p + k
    <3>1. PICK j \in 0 .. param_size - 1 : param[r][j] = <<s, i>>
      BY <2>1
    <3>2. \E k \in 0 .. L - 1 : j = shard_offset(s) + k /\ i = r * L + k
      BY <1>2, <2>1, <3>1
    <3> QED
      BY <1>5, <3>2
  <2> QED
    BY <1>5, <1>6, <1>9, <2>2
<1>11. ASSUME NEW i \in SliceOf(L, r) PROVE i \in RowsHeld(r, s)
  <2>1. i - p \in 0 .. L - 1 /\ i = p + (i - p) /\ i \in 0 .. size - 1
    BY <1>5, <1>6, <1>8, <1>9, <1>11
  <2>2. PICK k \in 0 .. L - 1 : i = p + k
    BY <2>1
  <2>3. param[r][off + k] = <<s, i>>
    BY <1>2, <1>4, <1>5, <2>2
  <2>4. off + k \in off .. off + L - 1
    BY <1>4, <1>9
  <2>5. off + k \in DOMAIN param[r]
    BY <1>2, <1>4, <2>4
  <2> QED
    BY <1>8, <2>1, <2>3, <2>5 DEF RowsHeld
<1> QED
  BY <1>1, <1>10, <1>11

\* Row k * head_size of shard s on rank r begins head number k of the rank.
LEMMA HeadAt ==
  ASSUME LoadInv, Complete = Ranks, present = Shards, config.kind = "qkv", NEW r \in Ranks,
         NEW s \in Shards, NEW k \in 0 .. Heads(s) \div tp_size - 1
  PROVE  param[r][shard_offset(s) + k * config.head_size][2] \div config.head_size
           = r * (Heads(s) \div tp_size) + k
<1>0. ~Whole /\ config \in Configs /\ Divides /\ Heads(s) % tp_size = 0
  BY LoadedEven DEF Whole, LoadInv, Divides
<1>1. PICK h \in Nat \ {0}, d \in Nat \ {0}, L \in Nat \ {0} :
        /\ h = Heads(s) \div tp_size /\ d = config.head_size
        /\ L = sizes[s] \div tp_size /\ L = h * d
  <2>1. /\ Heads(s) \div tp_size \in Nat \ {0} /\ config.head_size \in Nat \ {0}
        /\ sizes[s] \div tp_size = (Heads(s) \div tp_size) * config.head_size
    BY <1>0, HeadsDivide, ConfigType
  <2>2. sizes[s] \div tp_size \in Nat \ {0}
    BY <1>0, DividedShape
  <2> QED
    BY <2>1, <2>2
<1>2. k \in Nat /\ k + 1 <= h /\ r \in Nat
  <2>1. r \in Nat
    BY <1>0, ConfigType DEF Ranks
  <2> QED
    BY <1>1, <2>1
<1>3. k * d \in 0 .. L - 1
  <2>1. (k + 1) * d <= h * d
    BY <1>1, <1>2
  <2>2. (k + 1) * d = k * d + d /\ k * d \in Nat
    BY <1>1, <1>2
  <2>3. PICK p \in Nat : p = k * d
    BY <2>2
  <2>4. p + d <= L
    BY <1>1, <2>1, <2>2, <2>3
  <2>5. p \in 0 .. L - 1
    BY <1>1, <2>3, <2>4
  <2> QED
    BY <2>3, <2>5
<1>4. param[r][shard_offset(s) + k * d] = <<s, r * L + k * d>>
  <2>1. s \in present /\ L = sizes[s] \div tp_size
    BY <1>1
  <2>2. \A j \in 0 .. L - 1 : param[r][shard_offset(s) + j] = <<s, r * L + j>>
    BY <1>0, <2>1, DividedRows
  <2> QED
    BY <1>3, <2>2
<1>5. param[r][shard_offset(s) + k * d][2] = r * L + k * d
  BY <1>4
<1>6. r * L + k * d = (r * h + k) * d
  <2>1. r * (h * d) + k * d = (r * h + k) * d
    BY <1>1, <1>2
  <2> QED
    BY <1>1, <2>1
<1>7. PICK n \in Nat : n = r * h + k
  <2>1. r * h \in Nat
    BY <1>1, <1>2
  <2> QED
    BY <1>2, <2>1
<1>8. (n * d) \div d = n
  BY MultipleDivides
<1> QED
  BY <1>1, <1>5, <1>6, <1>7, <1>8

LEMMA HeadsCompose ==
  ASSUME LoadInv, Complete = Ranks, present = Shards, config.kind = "qkv", NEW r \in Ranks,
         Heads(1) % Heads(2) = 0,
         NEW k \in 0 .. Heads(1) \div tp_size - 1, NEW s \in {2, 3},
         NEW group, group = Heads(1) \div Heads(2)
  PROVE  param[r][shard_offset(s) + (k \div group) * config.head_size][2] \div config.head_size
           = (param[r][shard_offset(1) + k * config.head_size][2] \div config.head_size) \div group
<1>0. /\ config \in Configs /\ Shards = 1 .. 3 /\ 1 \in Shards /\ 2 \in Shards /\ s \in Shards
      /\ \A t \in Shards : Heads(t) % tp_size = 0
  <2>1. config \in Configs /\ Divides
    BY LoadedEven DEF LoadInv
  <2> QED
    BY <2>1, ConfigType DEF Divides
<1>1. PICK tp \in Nat \ {0}, h1 \in Nat \ {0}, h2 \in Nat \ {0}, n1 \in Nat \ {0}, n2 \in Nat \ {0} :
        /\ tp = tp_size /\ n1 = Heads(1) /\ n2 = Heads(2)
        /\ h1 = Heads(1) \div tp_size /\ h2 = Heads(2) \div tp_size
        /\ n1 = tp * h1 /\ n2 = tp * h2
  <2>1. tp_size \in Nat \ {0}
    BY <1>0, ConfigType
  <2>2. /\ Heads(1) \in Nat \ {0} /\ Heads(1) \div tp_size \in Nat \ {0}
        /\ Heads(1) = tp_size * (Heads(1) \div tp_size)
    BY <1>0, HeadsDivide
  <2>3. /\ Heads(2) \in Nat \ {0} /\ Heads(2) \div tp_size \in Nat \ {0}
        /\ Heads(2) = tp_size * (Heads(2) \div tp_size)
    BY <1>0, HeadsDivide
  <2> QED
    BY <2>1, <2>2, <2>3
<1>2. Heads(s) \div tp_size = h2
  <2>1. sizes[2] = sizes[3]
    BY <1>0, ConfigType
  <2>2. Heads(s) = Heads(2)
    BY <2>1 DEF Heads
  <2> QED
    BY <1>1, <2>2
<1>3. group \in Nat \ {0} /\ n1 = n2 * group
  <2>1. PICK g \in Nat : g = n1 \div n2 /\ n1 = n2 * g + (n1 % n2)
    BY DivMod
  <2>2. n1 % n2 = 0 /\ group = g
    BY <1>1, <2>1
  <2>3. n1 = n2 * g
    BY <2>1, <2>2
  <2>4. g # 0
    BY <2>3
  <2> QED
    BY <2>2, <2>3, <2>4
<1>4. h1 = h2 * group
  <2>1. tp * h1 = tp * (h2 * group)
    <3>1. (tp * h2) * group = tp * (h2 * group)
      BY <1>3
    <3> QED
      BY <1>1, <1>3, <3>1
  <2>2. PICK m \in Nat : m = h2 * group
    BY <1>3
  <2>3. tp * h1 = tp * m
    BY <2>1, <2>2
  <2>4. h1 = m
    <3>1. (h1 * tp) \div tp = h1 /\ (m * tp) \div tp = m
      BY MultipleDivides
    <3>2. h1 * tp = m * tp
      BY <2>3
    <3> QED
      BY <3>1, <3>2
  <2> QED
    BY <2>2, <2>4
<1>5. r \in Nat /\ k \in 0 .. h2 * group - 1
  <2>1. r \in Nat
    BY <1>0, ConfigType DEF Ranks
  <2> QED
    BY <1>1, <1>4, <2>1
<1>6. /\ k \div group \in 0 .. h2 - 1
      /\ (r * (h2 * group) + k) \div group = r * h2 + k \div group
  <2>1. PICK g \in Nat \ {0} : g = group
    BY <1>3
  <2>2. k \in 0 .. h2 * g - 1
    BY <1>5, <2>1
  <2>3. k \div g \in 0 .. h2 - 1 /\ (r * (h2 * g) + k) \div g = r * h2 + k \div g
    BY <1>5, <2>2, GroupsStayTogether
  <2> QED
    BY <2>1, <2>3
<1>7. param[r][shard_offset(s) + (k \div group) * config.head_size][2] \div config.head_size
        = r * h2 + (k \div group)
  BY <1>0, <1>2, <1>6, HeadAt
<1>8. param[r][shard_offset(1) + k * config.head_size][2] \div config.head_size = r * h1 + k
  BY <1>0, <1>1, HeadAt
<1> QED
  BY <1>4, <1>6, <1>7, <1>8

LEMMA VocabComposes ==
  ASSUME LoadInv, Complete = Ranks, present = Shards, config.kind = "vocab", NEW r \in Ranks,
         NEW x \in 0 .. sizes[1] - 1
  PROVE  /\ LocalIndex(x, r) \in DOMAIN param[r]
         /\ Cardinality(Unmasked(x)) = 1
         /\ Embedded(x) = {<<1, x>>} /\ LogitRow(x) = <<1, x>>
<1>0. config \in Configs /\ ~Whole /\ ~Packed /\ Shards = {1} /\ 1 \in present /\ Divides
  <2>1. config \in Configs /\ ~Whole /\ ~Packed /\ Divides
    BY LoadedEven DEF LoadInv, Whole, Packed
  <2> QED
    BY <2>1, ConfigType
<1>1. PICK tp \in Nat \ {0} : tp = tp_size /\ Ranks = 0 .. tp - 1
  BY <1>0, ConfigType DEF Ranks
<1>2. PICK L : L = sizes[1] \div tp_size
  OBVIOUS
<1>3. param_size = L /\ shard_offset(1) = 0
  BY <1>0, <1>2, ShardSizes
<1>4. /\ L \in Nat \ {0} /\ sizes[1] = L * tp
      /\ \A q \in Ranks : /\ DOMAIN param[q] = 0 .. L - 1
                          /\ \A k \in 0 .. L - 1 : param[q][0 + k] = <<1, q * L + k>>
  <2>1. 0 \in Ranks
    BY <1>1
  <2>2. ASSUME NEW q \in Ranks
        PROVE  /\ L \in Nat \ {0} /\ sizes[1] = L * tp
               /\ DOMAIN param[q] = 0 .. L - 1
               /\ \A k \in 0 .. L - 1 : param[q][0 + k] = <<1, q * L + k>>
    <3>1. /\ L \in Nat \ {0} /\ sizes[1] = L * tp_size
          /\ DOMAIN param[q] = 0 .. param_size - 1
          /\ \A k \in 0 .. L - 1 : param[q][shard_offset(1) + k] = <<1, q * L + k>>
      BY <1>0, <1>2, DividedShape, DividedRows
    <3> QED
      BY <1>1, <1>3, <3>1
  <2> QED
    BY <2>1, <2>2
<1>5. /\ \A q \in 0 .. tp - 1 : SliceOf(L, q) \subseteq 0 .. L * tp - 1
      /\ \A i \in 0 .. L * tp - 1 :
           /\ \E q \in 0 .. tp - 1 : i \in SliceOf(L, q)
           /\ \A q, u \in 0 .. tp - 1 : i \in SliceOf(L, q) /\ i \in SliceOf(L, u) => q = u
  BY <1>4, SlicesPartition
<1>6. \A q \in Ranks : x \in Interval(vocab_start_idx(q), param_size) <=> x \in SliceOf(L, q)
  <2>1. ASSUME NEW q \in Ranks
        PROVE  vocab_start_idx(q) = q * L
    <3>1. L * q = q * L
      BY <1>1, <1>4
    <3> QED
      BY <1>3, <3>1 DEF vocab_start_idx
  <2> QED
    BY <1>3, <2>1 DEF SliceOf
<1>7. x \in 0 .. L * tp - 1
  BY <1>4
<1>8. PICK q \in Ranks : x \in SliceOf(L, q) /\ \A u \in Ranks : x \in SliceOf(L, u) => u = q
  BY <1>1, <1>5, <1>7
<1>9. Unmasked(x) = {q}
  BY <1>6, <1>8 DEF Unmasked
<1>10. Cardinality(Unmasked(x)) = 1
  BY <1>9, FS_Singleton
<1>11. PICK p \in Nat, k \in 0 .. L - 1 : p = q * L /\ x = p + k /\ p = L * q
  <2>1. q \in Nat /\ L \in Nat
    BY <1>1, <1>4
  <2>2. q * L \in Nat /\ q * L = L * q
    BY <2>1
  <2>3. PICK p \in Nat : p = q * L /\ p = L * q
    BY <2>2
  <2>4. x \in p .. p + L - 1
    BY <1>8, <2>3 DEF SliceOf, Interval
  <2>5. x - p \in 0 .. L - 1 /\ x = p + (x - p)
    BY <2>1, <2>3, <2>4
  <2> QED
    BY <2>3, <2>5
<1>12. LocalIndex(x, q) = k /\ \A u \in Ranks \ {q} : LocalIndex(x, u) = 0
  <2>1. vocab_start_idx(q) = p
    BY <1>3, <1>11 DEF vocab_start_idx
  <2>2. x - p = k
    <3>1. k \in Int
      BY <1>4
    <3> QED
      BY <1>11, <3>1
  <2> QED
    BY <1>9, <2>1, <2>2 DEF LocalIndex
<1>13. LocalIndex(x, r) \in DOMAIN param[r]
  <2>1. 0 \in 0 .. L - 1
    BY <1>4
  <2> QED
    BY <1>4, <1>12, <2>1
<1>14. param[q][k] = <<1, x>>
  <2>1. param[q][0 + k] = <<1, q * L + k>>
    BY <1>4
  <2>2. 0 + k = k
    BY <1>4
  <2> QED
    BY <1>11, <2>1, <2>2
<1>15. Embedded(x) = {<<1, x>>}
  BY <1>9, <1>12, <1>14 DEF Embedded
<1>16. LogitRow(x) = <<1, x>>
  <2>1. q \in Nat /\ L \in Nat \ {0} /\ x = q * L + k
    BY <1>1, <1>4, <1>11
  <2>2. x \div L = q
    BY <2>1, DivUnique
  <2>3. x \in Nat /\ x = L * (x \div L) + (x % L) /\ x % L \in 0 .. L - 1
    <3>1. x \in Nat
      BY <1>4, <1>11
    <3> QED
      BY <2>1, <3>1, DivMod
  <2>4. x % L = k
    <3>1. PICK m \in 0 .. L - 1 : m = x % L /\ x = L * q + m
      BY <2>2, <2>3
    <3>2. x = p + m /\ x = p + k /\ k \in Int /\ m \in Int
      BY <1>4, <1>11, <3>1
    <3>3. m = k
      BY <1>11, <3>2
    <3> QED
      BY <3>1, <3>3
  <2> QED
    BY <1>3, <1>14, <2>2, <2>4 DEF LogitRow
<1> QED
  BY <1>10, <1>13, <1>15, <1>16

(***************************************************************************)
(* The divided layers compose without communication, for every number of   *)
(* ranks, shards and heads: rows are in order, slices of consecutive       *)
(* layers agree, key and value heads are where grouped attention looks,    *)
(* and the one rank that embeds a token also gives its logit.              *)
(***************************************************************************)
THEOREM ShardsAlwaysCompose == ShardingSpec => []ShardsCompose
<1>1. ASSUME LoadInv, Complete = Ranks, present = Shards, ~Whole, NEW r \in Ranks
      PROVE  /\ \A i, j \in DOMAIN param[r] :
                  i < j => \/ param[r][i][1] < param[r][j][1]
                           \/ param[r][i][1] = param[r][j][1] /\ param[r][i][2] < param[r][j][2]
             /\ \A s \in Shards : RowsHeld(r, s) = SliceOf(sizes[s] \div tp_size, r)
  BY <1>1, RowsInOrder, RowsHeldAre
<1>2. ASSUME LoadInv, Complete = Ranks, present = Shards, ~Whole, NEW r \in Ranks,
             config.kind = "qkv", Heads(1) % Heads(2) = 0
      PROVE  \A k \in 0 .. Heads(1) \div tp_size - 1, s \in {2, 3} :
               param[r][shard_offset(s) + (k \div (Heads(1) \div Heads(2))) * config.head_size][2]
                   \div config.head_size
                 = (param[r][shard_offset(1) + k * config.head_size][2] \div config.head_size)
                     \div (Heads(1) \div Heads(2))
  BY <1>2, HeadsCompose
<1>3. ASSUME LoadInv, Complete = Ranks, present = Shards, ~Whole, NEW r \in Ranks,
             config.kind = "vocab"
      PROVE  \A x \in 0 .. sizes[1] - 1 :
               /\ LocalIndex(x, r) \in DOMAIN param[r]
               /\ Cardinality(Unmasked(x)) = 1
               /\ Embedded(x) = {<<1, x>>} /\ LogitRow(x) = <<1, x>>
  BY <1>3, VocabComposes
<1>4. LoadInv => ShardsCompose
  BY <1>1, <1>2, <1>3 DEF ShardsCompose
<1> QED
  BY <1>4, LoadInvariant, PTL

=============================================================================
