--------------------------- MODULE CudaGraphProofs --------------------------
(***************************************************************************)
(* Proofs about CudaGraph, for every configuration and every set of legal  *)
(* batches: which batches have a graph, the types, and that replaying      *)
(* graphs implements decoding without them.                                *)
(***************************************************************************)
EXTENDS CudaGraph, TLAPS

-----------------------------------------------------------------------------
(* Arithmetic.                                                             *)

LEMMA DivMod ==
  ASSUME NEW n \in Nat, NEW k \in Nat \ {0}
  PROVE  /\ n \div k \in Nat
         /\ n % k \in 0 .. k - 1
         /\ n = k * (n \div k) + (n % k)
  BY SMT

LEMMA MultipleAtLeast ==
  ASSUME NEW n \in Nat \ {0}, NEW k \in Nat \ {0}, n % k = 0
  PROVE  n >= k
  BY SMT

\* A place in a block is a slot.
LEMMA PlaceIsSlot ==
  ASSUME NEW b \in BlockId, NEW i \in 0 .. BlockSize - 1
  PROVE  b * BlockSize + i \in Slots
<1>1. BlockSize \in Nat /\ NumKvBlocks \in Nat  BY DecodeAssumption DEF DecodeAssumption
<1>2. b \in Nat /\ b + 1 <= NumKvBlocks  BY <1>1 DEF BlockId
<1>3. (b + 1) * BlockSize <= NumKvBlocks * BlockSize  BY <1>1, <1>2
<1>4. (b + 1) * BlockSize = b * BlockSize + BlockSize  BY <1>1, <1>2
<1>5. b * BlockSize \in Nat /\ NumKvBlocks * BlockSize \in Nat  BY <1>1, <1>2
<1> QED  BY <1>1, <1>3, <1>4, <1>5 DEF Slots

-----------------------------------------------------------------------------
(* Which batches have a graph.                                             *)

LEMMA MaxBs ==
  ASSUME max_num_seqs \in MaxNumSeqs
  PROVE  /\ max_bs \in Nat \ {0}
         /\ \A n \in Nat \ {0} : n <= max_num_seqs /\ n <= GraphCap => n \in Rows
  BY DecodeAssumption, GraphAssumption
     DEF DecodeAssumption, GraphAssumption, max_bs, AtMost, Rows

LEMMA GraphSizes ==
  ASSUME max_num_seqs \in MaxNumSeqs
  PROVE  /\ graph_bs \subseteq Nat \ {0}
         /\ graph_bs \subseteq SmallGraphs \cup Rows
<1> USE DecodeAssumption, GraphAssumption DEF DecodeAssumption, GraphAssumption
<1>1. max_bs \in Nat \ {0}  BY MaxBs
<1>2. \A bs \in GraphStep .. max_bs : bs \in Nat \ {0} /\ bs \in Rows  BY <1>1 DEF Rows
<1> QED  BY <1>2 DEF graph_bs

\* All sizes together cover every batch exactly if the configuration is Coverable.
LEMMA SizesCover ==
  ASSUME max_num_seqs \in MaxNumSeqs
  PROVE  Coverable <=> \A n \in Rows : \E bs \in graph_bs : bs >= n
<1> USE DecodeAssumption, GraphAssumption DEF DecodeAssumption, GraphAssumption
<1>1. max_bs \in Nat \ {0}  BY MaxBs
<1>2. ASSUME Coverable, NEW n \in Rows  PROVE  \E bs \in graph_bs : bs >= n
  <2>1. n \in Nat /\ n <= max_bs  BY <1>1 DEF Rows
  <2>2. CASE max_bs % GraphStep = 0
    <3>1. max_bs >= GraphStep  BY <1>1, <2>2, MultipleAtLeast
    <3>2. max_bs \in graph_bs  BY <1>1, <2>2, <3>1 DEF graph_bs
    <3> QED  BY <2>1, <3>2
  <2>3. CASE \E bs \in SmallGraphs : bs >= max_bs
    <3>1. PICK bs \in SmallGraphs : bs >= max_bs  BY <2>3
    <3>2. bs \in graph_bs /\ bs >= n  BY <1>1, <2>1, <3>1 DEF graph_bs
    <3> QED  BY <3>2
  <2> QED  BY <1>2, <2>2, <2>3 DEF Coverable
<1>3. ASSUME \A n \in Rows : \E bs \in graph_bs : bs >= n  PROVE  Coverable
  <2>1. max_bs \in Rows  BY <1>1 DEF Rows
  <2>2. PICK bs \in graph_bs : bs >= max_bs  BY <1>3, <2>1
  <2>3. CASE bs \in SmallGraphs  BY <2>2, <2>3 DEF Coverable
  <2>4. CASE bs \in GraphStep .. max_bs /\ bs % GraphStep = 0
    <3>1. bs = max_bs  BY <1>1, <2>2, <2>4
    <3> QED  BY <2>4, <3>1 DEF Coverable
  <2> QED  BY <2>2, <2>3, <2>4 DEF graph_bs
<1> QED  BY <1>2, <1>3

\* The part of the state that decides which graphs there are.
GraphInv ==
  /\ max_num_seqs \in MaxNumSeqs
  /\ enforce_eager \in BOOLEAN
  /\ graphs \subseteq graph_bs
  /\ stopped \in {"none", "no graph", "table too wide"}
  /\ stopped = "no graph" => ~Coverable

\* A batch that has no graph shows that the configuration is not Coverable.
LEMMA NoGraphMeansUncoverable ==
  ASSUME GraphInv, NEW batch \in Batches, DecodeNoGraph(batch)
  PROVE  ~Coverable
<1>1. LegalBatch(batch)  BY DecodeAssumption DEF DecodeAssumption
<1>2. Len(batch) \in Nat \ {0}  BY <1>1 DEF LegalBatch
<1>3. /\ ~(Len(batch) > GraphCap)
      /\ Len(batch) <= max_num_seqs
      /\ graphs = graph_bs
  BY DEF DecodeNoGraph, Handed, Serving, Captured, Uncaptured
<1>4. Len(batch) \in Rows
  <2>1. \A n \in Nat \ {0} : n <= max_num_seqs /\ n <= GraphCap => n \in Rows
    BY MaxBs DEF GraphInv
  <2>2. Len(batch) <= GraphCap  BY <1>2, <1>3, GraphAssumption DEF GraphAssumption
  <2> QED  BY <1>2, <1>3, <2>1, <2>2
<1>5. ~ \E bs \in graph_bs : bs >= Len(batch)
  BY <1>3 DEF DecodeNoGraph, LargeEnough
<1> QED  BY <1>4, <1>5, SizesCover DEF GraphInv

LEMMA GraphInvStep ==
  ASSUME GraphInv, [CudaNext]_cudaVars
  PROVE  GraphInv'
<1> USE DEF GraphInv, Coverable, graph_bs, max_bs
<1>1. CASE Capture  BY <1>1 DEF Capture
<1>2. CASE PrefillOrCopy  BY <1>2 DEF PrefillOrCopy, OtherWrite, graphState
<1>3. ASSUME NEW batch \in Batches, DecodeEager(batch)  PROVE  GraphInv'
  BY <1>3 DEF DecodeEager, EagerStep, graphState
<1>4. ASSUME NEW batch \in Batches, DecodeNoGraph(batch)  PROVE  GraphInv'
  <2>1. ~Coverable  BY <1>4, NoGraphMeansUncoverable
  <2> QED  BY <1>4, <2>1 DEF DecodeNoGraph, eagerVars
<1>5. ASSUME NEW batch \in Batches, DecodeTooWide(batch)  PROVE  GraphInv'
  BY <1>5 DEF DecodeTooWide, eagerVars
<1>6. ASSUME NEW batch \in Batches, DecodeReplay(batch)  PROVE  GraphInv'
  BY <1>6 DEF DecodeReplay
<1>7. CASE UNCHANGED cudaVars  BY <1>7 DEF cudaVars, eagerVars, graphState
<1> QED  BY <1>1, <1>2, <1>3, <1>4, <1>5, <1>6, <1>7 DEF CudaNext, Decode

LEMMA GraphInvariant == CudaSpec => []GraphInv
<1>1. CudaInit => GraphInv  BY DEF CudaInit, EagerInit, GraphInv
<1>2. GraphInv /\ [CudaNext]_cudaVars => GraphInv'  BY GraphInvStep
<1> QED  BY <1>1, <1>2, PTL DEF CudaSpec

-----------------------------------------------------------------------------
(* The rows of a legal batch.                                              *)

LEMMA RowOfBatch ==
  ASSUME NEW batch \in Batches, NEW i \in DOMAIN batch
  PROVE  /\ batch[i].last_token \in Token
         /\ batch[i].num_tokens \in Nat \ {0}
         /\ batch[i].block_table \in Seq(BlockId)
         /\ Len(batch[i].block_table) = 1 + (batch[i].num_tokens - 1) \div BlockSize
<1>1. LegalBatch(batch)  BY DecodeAssumption DEF DecodeAssumption
<1>2. batch[i] \in Decoding  BY <1>1 DEF LegalBatch
<1> QED  BY <1>1, <1>2 DEF LegalBatch, Decoding

LEMMA SlotInRange ==
  ASSUME NEW batch \in Batches, NEW i \in DOMAIN batch,
         NEW p \in 0 .. batch[i].num_tokens - 1
  PROVE  /\ 1 + p \div BlockSize \in DOMAIN batch[i].block_table
         /\ batch[i].block_table[1 + p \div BlockSize] \in BlockId
         /\ SlotOf(batch[i], p) \in Slots
<1> DEFINE s == batch[i]
<1>1. LegalBatch(batch)  BY DecodeAssumption DEF DecodeAssumption
<1>2. 1 + p \div BlockSize \in DOMAIN s.block_table  BY <1>1 DEF LegalBatch
<1>3. s.block_table \in Seq(BlockId)  BY RowOfBatch
<1>4. s.block_table[1 + p \div BlockSize] \in BlockId  BY <1>2, <1>3
<1>5. BlockSize \in Nat \ {0}  BY DecodeAssumption DEF DecodeAssumption
<1>6. p \in Nat  BY RowOfBatch
<1>7. p % BlockSize \in 0 .. BlockSize - 1  BY <1>5, <1>6, DivMod
<1> QED  BY <1>2, <1>4, <1>7, PlaceIsSlot DEF SlotOf

\* prepare_decode computes the slot of the last token.
LEMMA LastSlotIsSlot ==
  ASSUME NEW batch \in Batches, NEW i \in DOMAIN batch
  PROVE  /\ LastSlot(batch[i]) = SlotOf(batch[i], batch[i].num_tokens - 1)
         /\ LastSlot(batch[i]) \in Slots
<1> DEFINE s == batch[i]
           n == s.num_tokens - 1
           q == n \div BlockSize
<1>1. BlockSize \in Nat \ {0}  BY DecodeAssumption DEF DecodeAssumption
<1>2. s.num_tokens \in Nat \ {0} /\ n \in Nat /\ n \in 0 .. s.num_tokens - 1
  BY RowOfBatch
<1>3. q \in Nat /\ n % BlockSize \in Int /\ n = BlockSize * q + (n % BlockSize)
  <2> HIDE DEF n
  <2>1. n % BlockSize \in 0 .. BlockSize - 1  BY <1>1, <1>2, DivMod
  <2>2. n % BlockSize \in Int  BY <1>1, <2>1
  <2>3. n \div BlockSize \in Nat  BY <1>1, <1>2, DivMod
  <2>4. n = BlockSize * (n \div BlockSize) + (n % BlockSize)  BY <1>1, <1>2, DivMod
  <2> QED  BY <2>2, <2>3, <2>4
<1>4. Len(s.block_table) = 1 + q  BY RowOfBatch
<1>5. s.block_table[1 + q] \in Int
  <2>1. s.block_table[1 + q] \in BlockId  BY <1>2, SlotInRange
  <2> QED  BY <2>1 DEF BlockId
<1>6. s.num_tokens - (Len(s.block_table) - 1) * BlockSize - 1 = n % BlockSize
  <2> HIDE DEF q
  <2>1. (Len(s.block_table) - 1) * BlockSize = BlockSize * q  BY <1>1, <1>3, <1>4
  <2>2. BlockSize * q \in Int  BY <1>1, <1>3
  <2> QED  BY <1>2, <1>3, <2>1, <2>2
<1>7. LastSlot(s) = SlotOf(s, n)
  <2> DEFINE start == s.block_table[1 + q] * BlockSize
             places == (Len(s.block_table) - 1) * BlockSize
  <2>1. start \in Int  BY <1>1, <1>5
  <2>2. places \in Int  BY <1>1, <1>3, <1>4
  <2>3. LastSlot(s) = start + (s.num_tokens - places) - 1  BY <1>4 DEF LastSlot
  <2>4. SlotOf(s, n) = start + (n % BlockSize)  BY DEF SlotOf
  <2>5. s.num_tokens - places - 1 = n % BlockSize  BY <1>6
  <2> HIDE DEF start, places
  <2> QED  BY <1>2, <1>3, <2>1, <2>2, <2>3, <2>4, <2>5
<1> QED  BY <1>2, <1>7, SlotInRange

\* A sequence within max_model_len has no more blocks than the tensor has columns.
LEMMA WidthsFit ==
  ASSUME NEW batch \in Batches, NEW width \in Widths(batch),
         \A i \in DOMAIN batch : batch[i].num_tokens <= MaxModelLen
  PROVE  width <= max_num_blocks
<1>1. PICK i \in DOMAIN batch : width = Len(batch[i].block_table)  BY DEF Widths
<1> DEFINE n == batch[i].num_tokens - 1
           m == MaxModelLen + BlockSize - 1
           q == n \div BlockSize
           k == m \div BlockSize
<1>2. BlockSize \in Nat \ {0} /\ MaxModelLen \in Nat \ {0}
  BY DecodeAssumption, GraphAssumption DEF DecodeAssumption, GraphAssumption
<1>3. n \in Nat /\ width = 1 + q /\ n + 1 <= MaxModelLen  BY <1>1, RowOfBatch
<1>4. m \in Nat /\ max_num_blocks = k  BY <1>2 DEF max_num_blocks
<1> HIDE DEF n
<1>5. q \in Nat /\ n = BlockSize * q + (n % BlockSize) /\ n % BlockSize \in 0 .. BlockSize - 1
  BY <1>2, <1>3, DivMod
<1>6. m = MaxModelLen + BlockSize - 1  OBVIOUS
<1> HIDE DEF m
<1>7. k \in Nat /\ m = BlockSize * k + (m % BlockSize) /\ m % BlockSize \in 0 .. BlockSize - 1
  BY <1>2, <1>4, DivMod
<1> HIDE DEF q, k
<1>8. k >= 1 + q
  <2>1. SUFFICES ASSUME k <= q  PROVE FALSE  BY <1>5, <1>7
  <2>2. BlockSize * k <= BlockSize * q  BY <1>2, <1>5, <1>7, <2>1
  <2>3. BlockSize * k \in Nat /\ BlockSize * q \in Nat  BY <1>2, <1>5, <1>7
  <2>4. m <= BlockSize * q + BlockSize - 1  BY <1>2, <1>4, <1>7, <2>2, <2>3
  <2>5. BlockSize * q <= n  BY <1>2, <1>3, <1>5, <2>3
  <2> QED  BY <1>2, <1>3, <1>6, <2>3, <2>4, <2>5
<1> QED  BY <1>3, <1>4, <1>5, <1>7, <1>8

(***************************************************************************)
(* For every max_num_seqs and every series of sizes: all batches have a    *)
(* graph exactly if the largest is a recorded size, and the engine ends    *)
(* for want of a graph only if it is not; and for every block size, a      *)
(* batch within max_model_len fits into the tensors.                       *)
(***************************************************************************)
THEOREM GraphsCoverExactly == CudaSpec => []GraphsCover
<1>1. GraphInv => GraphsCover
  BY SizesCover, WidthsFit DEF GraphInv, GraphsCover, Serving, Captured
<1> QED  BY <1>1, GraphInvariant, PTL

-----------------------------------------------------------------------------
(* Replaying a graph.                                                      *)

\* Before the last graph is captured, the tensors are zero and slot 0 is unused.
CaptureInv ==
  ~Captured =>
    /\ kv_cache[0] = NoKv
    /\ \A i \in Rows : /\ graph_vars.input_ids[i] = 0
                      /\ graph_vars.positions[i] = 0
                      /\ graph_vars.slot_mapping[i] = 0

CudaInv == GraphInv /\ CudaTypeOK /\ CaptureInv

\* The warm-up stores zeros into slot 0 of a cache that nobody has used.
LEMMA CaptureKeepsCache ==
  ASSUME CudaInv, Capture
  PROVE  kv_cache' = kv_cache
<1>1. PICK bs \in graph_bs : kv_cache' = GraphStored(graph_vars, Sliced(bs))
  BY DEF Capture
<1> DEFINE n == Sliced(bs)
<1>2. 1 .. n \subseteq Rows
  <2>1. bs \in Nat \ {0}  BY GraphSizes DEF CudaInv, GraphInv
  <2>2. max_bs \in Nat \ {0}  BY MaxBs DEF CudaInv, GraphInv
  <2> QED  BY <2>1, <2>2 DEF Sliced, AtMost, Rows
<1>3. \A i \in 1 .. n : graph_vars.slot_mapping[i] = 0 /\ RowKeys(graph_vars, i) = NoKv
  BY <1>2 DEF CudaInv, CaptureInv, Capture, RowKeys, NoKv
<1>4. kv_cache[0] = NoKv  BY DEF CudaInv, CaptureInv, Capture
<1>5. kv_cache = [slot \in Slots |-> kv_cache[slot]]  BY DEF CudaInv, CudaTypeOK
<1>6. ASSUME NEW slot \in Slots
      PROVE  (IF \E i \in 1 .. n : graph_vars.slot_mapping[i] = slot
              THEN RowKeys(graph_vars, CHOOSE i \in 1 .. n : graph_vars.slot_mapping[i] = slot)
              ELSE kv_cache[slot]) = kv_cache[slot]
  <2> HIDE DEF n
  <2>1. CASE \E i \in 1 .. n : graph_vars.slot_mapping[i] = slot
    <3> DEFINE c == CHOOSE i \in 1 .. n : graph_vars.slot_mapping[i] = slot
    <3>1. c \in 1 .. n /\ graph_vars.slot_mapping[c] = slot  BY <2>1
    <3> QED  BY <1>3, <1>4, <2>1, <3>1
  <2> QED  BY <2>1
<1>7. GraphStored(graph_vars, n) = [slot \in Slots |-> kv_cache[slot]]
  BY <1>6 DEF GraphStored
<1> QED  BY <1>1, <1>5, <1>7

LEMMA ColumnsNatural == max_num_blocks \in Nat
<1>1. MaxModelLen + BlockSize - 1 \in Nat /\ BlockSize \in Nat \ {0}
  BY DecodeAssumption, GraphAssumption DEF DecodeAssumption, GraphAssumption
<1> QED  BY <1>1, DivMod DEF max_num_blocks

\* What the rows of the tensors hold after the batch is copied in.
LEMMA RowsCopied ==
  ASSUME CudaInv, NEW batch \in Batches, NEW width \in Widths(batch),
         Len(batch) <= max_bs, width <= max_num_blocks
  PROVE  LET gv == CopiedIn(batch, width)
         IN /\ DOMAIN batch = 1 .. Len(batch) /\ DOMAIN batch \subseteq Rows
            /\ \A i \in DOMAIN batch :
                 /\ RowKeys(gv, i) = Keys(batch[i])
                 /\ gv.slot_mapping[i] = LastSlot(batch[i])
                 /\ gv.context_lens[i] = batch[i].num_tokens
                 /\ \A c \in DOMAIN batch[i].block_table :
                      gv.block_tables[i][c] = batch[i].block_table[c]
            /\ \A i \in Rows \ DOMAIN batch : gv.slot_mapping[i] = -1
<1> DEFINE gv == CopiedIn(batch, width)
<1>1. LegalBatch(batch)  BY DecodeAssumption DEF DecodeAssumption
<1>2. max_bs \in Nat \ {0}  BY MaxBs DEF CudaInv, GraphInv
<1>3. DOMAIN batch = 1 .. Len(batch) /\ Len(batch) \in Nat  BY <1>1 DEF LegalBatch
<1>4. DOMAIN batch \subseteq Rows  BY <1>2, <1>3 DEF Rows
<1>5. ASSUME NEW i \in DOMAIN batch
      PROVE  /\ RowKeys(gv, i) = Keys(batch[i])
             /\ gv.slot_mapping[i] = LastSlot(batch[i])
             /\ gv.context_lens[i] = batch[i].num_tokens
  BY <1>4, <1>5 DEF CopiedIn, Overwrite, RowKeys, Keys
<1>6. ASSUME NEW i \in DOMAIN batch, NEW c \in DOMAIN batch[i].block_table
      PROVE  gv.block_tables[i][c] = batch[i].block_table[c]
  <2>1. Len(batch[i].block_table) <= width /\ width \in Nat
    BY RowOfBatch DEF Widths
  <2>2. c \in Nat \ {0} /\ c <= Len(batch[i].block_table)  BY RowOfBatch
  <2>3. max_num_blocks \in Nat  BY ColumnsNatural
  <2>4. c \in Columns /\ c <= width  BY <2>1, <2>2, <2>3 DEF Columns
  <2> QED  BY <1>4, <2>2, <2>4 DEF CopiedIn, Overwrite, PaddedTable
<1>7. ASSUME NEW i \in Rows \ DOMAIN batch  PROVE  gv.slot_mapping[i] = -1
  BY <1>7 DEF CopiedIn, Overwrite, PaddingSlots
<1> QED  BY <1>3, <1>4, <1>5, <1>6, <1>7

LEMMA ReplayStores ==
  ASSUME CudaInv, NEW batch \in Batches, NEW width \in Widths(batch),
         NEW bs \in graph_bs, Len(batch) <= bs,
         Len(batch) <= max_bs, width <= max_num_blocks
  PROVE  GraphStored(CopiedIn(batch, width), Sliced(bs)) = StoredFor(batch)
<1> DEFINE gv == CopiedIn(batch, width)
           n == Sliced(bs)
           In(i, slot) == SlotOf(batch[i], batch[i].num_tokens - 1) = slot
<1>1. LegalBatch(batch)  BY DecodeAssumption DEF DecodeAssumption
<1>2. DOMAIN batch \subseteq 1 .. n /\ 1 .. n \subseteq Rows
  <2>1. bs \in Nat \ {0}  BY GraphSizes DEF CudaInv, GraphInv
  <2>2. max_bs \in Nat \ {0}  BY MaxBs DEF CudaInv, GraphInv
  <2>3. DOMAIN batch = 1 .. Len(batch) /\ Len(batch) \in Nat  BY <1>1 DEF LegalBatch
  <2> QED  BY <2>1, <2>2, <2>3 DEF Sliced, AtMost, Rows
<1>3. \A i \in DOMAIN batch, slot \in Slots :
        /\ gv.slot_mapping[i] = slot <=> In(i, slot)
        /\ RowKeys(gv, i) = Keys(batch[i])
  BY RowsCopied, LastSlotIsSlot
<1>4. \A i \in Rows \ DOMAIN batch, slot \in Slots : gv.slot_mapping[i] # slot
  <2>1. \A i \in Rows \ DOMAIN batch : gv.slot_mapping[i] = -1  BY RowsCopied
  <2>2. -1 \notin Slots  BY DEF Slots
  <2> QED  BY <2>1, <2>2
<1>5. \A i, j \in DOMAIN batch, slot \in Slots : In(i, slot) /\ In(j, slot) => i = j
  BY <1>1 DEF LegalBatch
<1> HIDE DEF gv, n, In
<1>6. ASSUME NEW slot \in Slots
      PROVE  (IF \E i \in 1 .. n : gv.slot_mapping[i] = slot
              THEN RowKeys(gv, CHOOSE i \in 1 .. n : gv.slot_mapping[i] = slot)
              ELSE kv_cache[slot])
             = (IF \E i \in DOMAIN batch : In(i, slot)
                THEN Keys(batch[CHOOSE i \in DOMAIN batch : In(i, slot)])
                ELSE kv_cache[slot])
  <2>1. \A i \in 1 .. n : gv.slot_mapping[i] = slot <=> i \in DOMAIN batch /\ In(i, slot)
    BY <1>2, <1>3, <1>4
  <2>2. CASE \E i \in DOMAIN batch : In(i, slot)
    <3> DEFINE c == CHOOSE i \in 1 .. n : gv.slot_mapping[i] = slot
               d == CHOOSE i \in DOMAIN batch : In(i, slot)
    <3>1. d \in DOMAIN batch /\ In(d, slot)  BY <2>2
    <3>2. \E i \in 1 .. n : gv.slot_mapping[i] = slot  BY <1>2, <2>1, <2>2
    <3>3. c \in 1 .. n /\ gv.slot_mapping[c] = slot  BY <3>2
    <3>4. c = d  BY <1>5, <2>1, <3>1, <3>3
    <3>5. RowKeys(gv, c) = Keys(batch[d])  BY <1>3, <3>1, <3>4
    <3> HIDE DEF c, d
    <3>6. c = (CHOOSE i \in 1 .. n : gv.slot_mapping[i] = slot)  BY DEF c
    <3>7. d = (CHOOSE i \in DOMAIN batch : In(i, slot))  BY DEF d
    <3> QED  BY <2>2, <3>2, <3>5, <3>6, <3>7
  <2>3. CASE ~ \E i \in DOMAIN batch : In(i, slot)
    <3>1. ~ \E i \in 1 .. n : gv.slot_mapping[i] = slot  BY <2>1, <2>3
    <3> QED  BY <2>3, <3>1
  <2> QED  BY <2>2, <2>3
<1>7. GraphStored(gv, n) = StoredFor(batch)  BY <1>6 DEF GraphStored, StoredFor, In
<1> QED  BY <1>7 DEF gv, n

LEMMA ReplayAttends ==
  ASSUME CudaInv, NEW batch \in Batches, NEW width \in Widths(batch), NEW kv,
         Len(batch) <= max_bs, width <= max_num_blocks, NEW i \in DOMAIN batch
  PROVE  GraphAttended(kv, CopiedIn(batch, width), i) = Attended(kv, batch[i])
<1> DEFINE gv == CopiedIn(batch, width)
<1>1. /\ RowKeys(gv, i) = Keys(batch[i])
      /\ gv.context_lens[i] = batch[i].num_tokens
  BY RowsCopied
<1>2. ASSUME NEW p \in 0 .. batch[i].num_tokens - 1
      PROVE  gv.block_tables[i][1 + p \div BlockSize]
               = batch[i].block_table[1 + p \div BlockSize]
  BY RowsCopied, SlotInRange
<1> HIDE DEF gv
<1>3. [p \in 0 .. batch[i].num_tokens - 1 |->
         kv[gv.block_tables[i][1 + p \div BlockSize] * BlockSize + (p % BlockSize)]]
       = [p \in 0 .. batch[i].num_tokens - 1 |-> kv[SlotOf(batch[i], p)]]
  BY <1>2 DEF SlotOf
<1>4. GraphAttended(kv, gv, i) = Attended(kv, batch[i])
  BY <1>1, <1>3 DEF GraphAttended, Attended
<1> QED  BY <1>4 DEF gv

LEMMA ReplayIsEager ==
  ASSUME CudaInv, NEW batch \in Batches, DecodeReplay(batch)
  PROVE  EagerStep(batch)
<1>1. PICK bs \in LargeEnough(batch), width \in Widths(batch) :
        /\ width <= max_num_blocks
        /\ graph_vars' = CopiedIn(batch, width)
        /\ kv_cache' = GraphStored(CopiedIn(batch, width), Sliced(bs))
        /\ outputs' = [i \in DOMAIN batch |->
                          GraphAttended(kv_cache', CopiedIn(batch, width), i)]
  BY DEF DecodeReplay
<1>2. bs \in graph_bs /\ Len(batch) <= bs
  <2>1. bs \in graph_bs /\ bs >= Len(batch)
    BY DEF LargeEnough, CudaInv, GraphInv
  <2> QED  BY <2>1
<1>3. Len(batch) <= max_bs
  <2>1. LegalBatch(batch)  BY DecodeAssumption DEF DecodeAssumption
  <2>2. Len(batch) \in Nat  BY <2>1 DEF LegalBatch
  <2>3. ~(Len(batch) > GraphCap) /\ Len(batch) <= max_num_seqs
    BY DEF DecodeReplay, Handed, Uncaptured
  <2>4. GraphCap \in Nat /\ max_num_seqs \in Nat
    BY DecodeAssumption, GraphAssumption
       DEF DecodeAssumption, GraphAssumption, CudaInv, GraphInv
  <2> QED  BY <2>2, <2>3, <2>4 DEF max_bs, AtMost
<1>4. kv_cache' = StoredFor(batch)  BY <1>1, <1>2, <1>3, ReplayStores
<1>5. outputs' = [i \in DOMAIN batch |-> Attended(kv_cache', batch[i])]
  BY <1>1, <1>3, ReplayAttends
<1>6. Len(batch) <= max_num_seqs /\ UNCHANGED max_num_seqs
  BY DEF DecodeReplay, Handed
<1> QED  BY <1>4, <1>5, <1>6 DEF EagerStep

-----------------------------------------------------------------------------
(* The inductive invariant.                                                *)

LEMMA StoredType ==
  ASSUME kv_cache \in [Slots -> (Token \cup {0}) \X Nat], NEW batch \in Batches
  PROVE  StoredFor(batch) \in [Slots -> (Token \cup {0}) \X Nat]
<1>1. \A i \in DOMAIN batch : Keys(batch[i]) \in (Token \cup {0}) \X Nat
  BY RowOfBatch DEF Keys
<1> QED  BY <1>1 DEF StoredFor

LEMMA OtherWriteType ==
  ASSUME kv_cache \in [Slots -> (Token \cup {0}) \X Nat], OtherWrite
  PROVE  kv_cache' \in [Slots -> (Token \cup {0}) \X Nat]
<1>1. PICK slot \in PrefillSlots, t \in Token :
        kv_cache' = [kv_cache EXCEPT ![slot] = <<t, slot % BlockSize>>]
  BY DEF OtherWrite
<1>2. slot \in Nat /\ BlockSize \in Nat \ {0}
  BY DecodeAssumption DEF DecodeAssumption, Slots
<1>3. slot % BlockSize \in Nat  BY <1>2
<1> QED  BY <1>1, <1>3

LEMMA PaddedTableType ==
  ASSUME NEW batch \in Batches, NEW i \in DOMAIN batch, NEW c \in Columns
  PROVE  PaddedTable(batch[i], c) \in BlockId \cup {-1}
<1>1. batch[i].block_table \in Seq(BlockId)  BY RowOfBatch
<1>2. c \in Nat \ {0}  BY ColumnsNatural DEF Columns
<1>3. c <= Len(batch[i].block_table) => batch[i].block_table[c] \in BlockId
  BY <1>1, <1>2
<1> QED  BY <1>3 DEF PaddedTable

LEMMA CopiedType ==
  ASSUME CudaInv, NEW batch \in Batches, NEW width \in Widths(batch)
  PROVE  LET gv == CopiedIn(batch, width)
         IN /\ gv.input_ids \in [Rows -> Token \cup {0}]
            /\ gv.positions \in [Rows -> Nat]
            /\ gv.slot_mapping \in [Rows -> Slots \cup {-1}]
            /\ gv.context_lens \in [Rows -> Nat]
            /\ gv.block_tables \in [Rows -> [Columns -> BlockId \cup {-1}]]
<1> DEFINE gv == CopiedIn(batch, width)
<1>a. \A i \in DOMAIN batch : /\ batch[i].last_token \in Token
                             /\ batch[i].num_tokens \in Nat \ {0}
                             /\ batch[i].block_table \in Seq(BlockId)
  BY RowOfBatch
<1>b. \A i \in DOMAIN batch : batch[i].num_tokens - 1 \in Nat  BY <1>a
<1> USE DEF CudaInv, CudaTypeOK, CopiedIn, Overwrite
<1>1. gv.input_ids \in [Rows -> Token \cup {0}]  BY <1>a
<1>2. gv.positions \in [Rows -> Nat]  BY <1>b
<1>3. gv.slot_mapping \in [Rows -> Slots \cup {-1}]  BY LastSlotIsSlot DEF PaddingSlots
<1>4. gv.context_lens \in [Rows -> Nat]  BY <1>a
<1>5. gv.block_tables \in [Rows -> [Columns -> BlockId \cup {-1}]]
  <2>1. \A i \in DOMAIN batch, c \in Columns : PaddedTable(batch[i], c) \in BlockId \cup {-1}
    BY PaddedTableType
  <2>2. ASSUME NEW i \in Rows
        PROVE  gv.block_tables[i] \in [Columns -> BlockId \cup {-1}]
    BY <2>1
  <2> QED  BY <2>2
<1> QED  BY <1>1, <1>2, <1>3, <1>4, <1>5

LEMMA InitInv ==
  ASSUME CudaInit
  PROVE  CudaInv
<1> USE DecodeAssumption DEF DecodeAssumption
<1>1. GraphInv  BY DEF CudaInit, EagerInit, GraphInv
<1>2. 0 \in Slots /\ 0 \in BlockId
  <2>1. 0 \in BlockId  BY DEF BlockId
  <2>2. 0 * BlockSize + 0 \in Slots  BY <2>1, PlaceIsSlot
  <2> QED  BY <2>1, <2>2
<1>3. CudaTypeOK
  <2>1. kv_cache \in [Slots -> (Token \cup {0}) \X Nat]
    BY DEF CudaInit, EagerInit, NoKv
  <2> QED  BY <1>2, <2>1 DEF CudaInit, EagerInit, CudaTypeOK
<1>4. CaptureInv
  BY <1>2 DEF CudaInit, EagerInit, CaptureInv
<1> QED  BY <1>1, <1>3, <1>4 DEF CudaInv

LEMMA StepInv ==
  ASSUME CudaInv, [CudaNext]_cudaVars
  PROVE  CudaInv'
<1>1. GraphInv'  BY GraphInvStep DEF CudaInv
<1>2. Rows' = Rows /\ Columns' = Columns /\ graph_bs' = graph_bs
  <2>1. max_num_seqs' = max_num_seqs
    BY DEF CudaNext, Capture, PrefillOrCopy, OtherWrite, Decode, DecodeEager, EagerStep,
           DecodeNoGraph, DecodeTooWide, DecodeReplay, cudaVars, eagerVars
  <2> QED  BY <2>1 DEF Rows, Columns, graph_bs, max_bs
<1>3. graphs' \subseteq SmallGraphs \cup Rows
  BY <1>1, <1>2, GraphSizes DEF CudaInv, GraphInv
<1>4. CASE Capture
  <2>1. kv_cache' = kv_cache /\ graph_vars' = graph_vars /\ ~Captured
    BY <1>4, CaptureKeepsCache DEF Capture
  <2>2. CudaTypeOK'
    BY <1>1, <1>2, <1>3, <2>1 DEF CudaInv, CudaTypeOK, GraphInv
  <2>3. CaptureInv'  BY <1>2, <2>1 DEF CudaInv, CaptureInv
  <2> QED  BY <1>1, <2>2, <2>3 DEF CudaInv
<1>5. CASE PrefillOrCopy
  <2>1. kv_cache' \in [Slots -> (Token \cup {0}) \X Nat]
    BY <1>5, OtherWriteType DEF CudaInv, CudaTypeOK, PrefillOrCopy
  <2>2. graph_vars' = graph_vars /\ Captured'
    BY <1>2, <1>5 DEF PrefillOrCopy, Serving, Captured, graphState
  <2>3. CudaTypeOK'
    BY <1>1, <1>2, <1>3, <2>1, <2>2 DEF CudaInv, CudaTypeOK, GraphInv
  <2> QED  BY <1>1, <2>2, <2>3 DEF CudaInv, CaptureInv
<1>6. ASSUME NEW batch \in Batches, DecodeEager(batch)  PROVE  CudaInv'
  <2>1. kv_cache' \in [Slots -> (Token \cup {0}) \X Nat]
    BY <1>6, StoredType DEF CudaInv, CudaTypeOK, DecodeEager, EagerStep
  <2>2. graph_vars' = graph_vars /\ Captured'
    BY <1>2, <1>6 DEF DecodeEager, Handed, Serving, Captured, graphState
  <2>3. CudaTypeOK'
    BY <1>1, <1>2, <1>3, <2>1, <2>2 DEF CudaInv, CudaTypeOK, GraphInv
  <2> QED  BY <1>1, <2>2, <2>3 DEF CudaInv, CaptureInv
<1>7. ASSUME UNCHANGED <<kv_cache, graph_vars, enforce_eager, graphs>>  PROVE  CudaInv'
  <2>1. CudaTypeOK'
    BY <1>1, <1>2, <1>3, <1>7 DEF CudaInv, CudaTypeOK, GraphInv
  <2>2. CaptureInv'  BY <1>2, <1>7 DEF CudaInv, CaptureInv, Captured
  <2> QED  BY <1>1, <2>1, <2>2 DEF CudaInv
<1>8. ASSUME NEW batch \in Batches, DecodeReplay(batch)  PROVE  CudaInv'
  <2>1. kv_cache' \in [Slots -> (Token \cup {0}) \X Nat]
    <3>1. kv_cache' = StoredFor(batch)  BY <1>8, ReplayIsEager DEF EagerStep
    <3> QED  BY <3>1, StoredType DEF CudaInv, CudaTypeOK
  <2>2. PICK width \in Widths(batch) : graph_vars' = CopiedIn(batch, width)
    BY <1>8 DEF DecodeReplay
  <2>3. CudaTypeOK'
    BY <1>1, <1>2, <1>3, <2>1, <2>2, CopiedType DEF CudaTypeOK, GraphInv
  <2>4. Captured'
    BY <1>2, <1>8 DEF DecodeReplay, Handed, Serving, Captured
  <2> QED  BY <1>1, <2>3, <2>4 DEF CudaInv, CaptureInv
<1>9. CASE UNCHANGED cudaVars
  BY <1>7, <1>9 DEF cudaVars, eagerVars, graphState
<1>10. ASSUME NEW batch \in Batches, DecodeNoGraph(batch) \/ DecodeTooWide(batch)
       PROVE  CudaInv'
  BY <1>7, <1>10 DEF DecodeNoGraph, DecodeTooWide, eagerVars
<1> QED  BY <1>4, <1>5, <1>6, <1>8, <1>9, <1>10 DEF CudaNext, Decode

LEMMA CudaInvariant == CudaSpec => []CudaInv
<1> QED  BY InitInv, StepInv, PTL DEF CudaSpec

(***************************************************************************)
(* The tensors the graphs are bound to keep their shape.                   *)
(***************************************************************************)
THEOREM CudaTypeCorrect == CudaSpec => []CudaTypeOK
<1>1. CudaInv => CudaTypeOK  BY DEF CudaInv
<1> QED  BY <1>1, CudaInvariant, PTL

(***************************************************************************)
(* Replaying a graph is the same as running the model: for every           *)
(* configuration, every page table and whatever earlier batches left in    *)
(* the tensors.                                                            *)
(***************************************************************************)
THEOREM CudaImplementsEager == CudaSpec => ImplementsEager
<1>1. CudaInit => EagerInit  BY DEF CudaInit
<1>2. CudaInv /\ [CudaNext]_cudaVars => [EagerNext]_eagerVars
  <2> SUFFICES ASSUME CudaInv, [CudaNext]_cudaVars  PROVE  [EagerNext]_eagerVars
    OBVIOUS
  <2>1. CASE Capture
    BY <2>1, CaptureKeepsCache DEF Capture, eagerVars
  <2>2. CASE PrefillOrCopy  BY <2>2 DEF PrefillOrCopy, EagerNext
  <2>3. ASSUME NEW batch \in Batches, DecodeEager(batch)  PROVE  [EagerNext]_eagerVars
    BY <2>3 DEF DecodeEager, EagerNext
  <2>4. ASSUME NEW batch \in Batches, DecodeReplay(batch)  PROVE  [EagerNext]_eagerVars
    BY <2>4, ReplayIsEager DEF EagerNext
  <2>5. ASSUME NEW batch \in Batches, DecodeNoGraph(batch) \/ DecodeTooWide(batch)
        PROVE  [EagerNext]_eagerVars
    BY <2>5 DEF DecodeNoGraph, DecodeTooWide
  <2>6. CASE UNCHANGED cudaVars  BY <2>6 DEF cudaVars
  <2> QED  BY <2>1, <2>2, <2>3, <2>4, <2>5, <2>6 DEF CudaNext, Decode
<1> QED  BY <1>1, <1>2, CudaInvariant, PTL DEF CudaSpec, ImplementsEager, EagerSpec

=============================================================================
