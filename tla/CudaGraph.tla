----------------------------- MODULE CudaGraph ------------------------------
(***************************************************************************)
(* CUDA graphs of ModelRunner (prism_infer/engine/model_runner.py):        *)
(* capture_cudagraph records the decode of a few batch sizes over tensors  *)
(* that stay where they are, and run_model replays the smallest recording  *)
(* that is large enough, after copying the batch into those tensors.  What *)
(* an earlier batch left in them is still there, in the rows and columns   *)
(* that the next one does not overwrite.                                   *)
(*                                                                         *)
(* Row i of the code is row i + 1 here.                                    *)
(***************************************************************************)
EXTENDS EagerDecode, FiniteSets

CONSTANTS
  SmallGraphs,    \* the sizes 1, 2, 4, 8
  GraphStep,      \* 16, the distance of the sizes after them
  GraphCap,       \* 512, the largest batch a graph is used for
  MaxModelLen     \* max_model_len

ASSUME GraphAssumption ==
  /\ SmallGraphs \subseteq Nat \ {0}
  /\ IsFiniteSet(SmallGraphs)
  /\ GraphStep \in Nat \ {0}
  /\ GraphCap \in Nat \ {0}
  /\ MaxModelLen \in Nat \ {0}

VARIABLES
  enforce_eager,  \* configured: no graphs
  graphs,         \* the sizes captured so far
  graph_vars,     \* the tensors the graphs are bound to
  stopped         \* the exception that ended the engine

graphState == <<enforce_eager, graphs, graph_vars, stopped>>
cudaVars == <<eagerVars, graphState>>

AtMost(m, n) == IF m <= n THEN m ELSE n

max_bs == AtMost(max_num_seqs, GraphCap)

max_num_blocks == (MaxModelLen + BlockSize - 1) \div BlockSize

Rows == 1 .. max_bs
Columns == 1 .. max_num_blocks

\* Fault: range(16, max_bs + 17, 16).
GraphSizesLong ==
  SmallGraphs \cup {bs \in GraphStep .. max_bs + GraphStep : bs % GraphStep = 0}

\* Fault: range(16, max_bs, 16).
GraphSizesShort == SmallGraphs \cup {bs \in GraphStep .. max_bs - 1 : bs % GraphStep = 0}

\* [1, 2, 4, 8] + list(range(16, max_bs + 1, 16))
graph_bs == SmallGraphs \cup {bs \in GraphStep .. max_bs : bs % GraphStep = 0}

Captured == enforce_eager \/ graphs = graph_bs

-----------------------------------------------------------------------------
(* What the recorded kernels do to rows 1 .. n of the tensors `vars'.      *)

RowKeys(gv, i) == <<gv.input_ids[i], gv.positions[i]>>

\* store_kvcache_kernel; slot -1 is skipped.
GraphStored(gv, n) ==
  [slot \in Slots |->
     IF \E i \in 1 .. n : gv.slot_mapping[i] = slot
     THEN RowKeys(gv, CHOOSE i \in 1 .. n : gv.slot_mapping[i] = slot)
     ELSE kv_cache[slot]]

\* flash_attn_with_kvcache: context_lens bounds what is read through block_tables.
GraphAttended(kv, gv, i) ==
  <<RowKeys(gv, i),
    [p \in 0 .. gv.context_lens[i] - 1 |->
       kv[gv.block_tables[i][1 + p \div BlockSize] * BlockSize + (p % BlockSize)]]>>

\* A slice [:bs] of a tensor of max_bs rows has no more than max_bs rows.
Sliced(bs) == AtMost(bs, max_bs)

-----------------------------------------------------------------------------
\* One size of the loop over reversed(graph_bs): warm up once, then record.
Capture ==
  /\ stopped = "none"
  /\ ~Captured
  /\ \E bs \in graph_bs \ graphs :
       /\ \A n \in graph_bs \ graphs : n <= bs
       /\ kv_cache' = GraphStored(graph_vars, Sliced(bs))
       /\ graphs' = graphs \cup {bs}
  /\ UNCHANGED <<outputs, max_num_seqs, enforce_eager, graph_vars, stopped>>

Serving == Captured /\ stopped = "none"

Uncaptured(n) == enforce_eager \/ n > GraphCap

\* prepare_block_tables pads the tables with -1 to the longest of the batch.
Widths(batch) ==
  {w \in {Len(batch[i].block_table) : i \in DOMAIN batch} :
     \A i \in DOMAIN batch : Len(batch[i].block_table) <= w}

PaddedTable(s, c) == IF c <= Len(s.block_table) THEN s.block_table[c] ELSE -1

\* prepare_decode's slot: the last place in use of the last block.
LastSlot(s) ==
  s.block_table[Len(s.block_table)] * BlockSize
    + (s.num_tokens - (Len(s.block_table) - 1) * BlockSize) - 1

\* Tensor `old' after old[:n] = new.
Overwrite(old, new) == [i \in Rows |-> IF i \in DOMAIN new THEN new[i] ELSE old[i]]

PaddingSlotsStale == graph_vars.slot_mapping   \* fault: no fill_(-1)

PaddingSlots == [i \in Rows |-> -1]

\* The tensors after the batch, with tables of the given width, is copied in.
CopiedIn(batch, width) ==
  [input_ids |->
     Overwrite(graph_vars.input_ids, [i \in DOMAIN batch |-> batch[i].last_token]),
   positions |->
     Overwrite(graph_vars.positions, [i \in DOMAIN batch |-> batch[i].num_tokens - 1]),
   slot_mapping |-> Overwrite(PaddingSlots, [i \in DOMAIN batch |-> LastSlot(batch[i])]),
   context_lens |->
     Overwrite([i \in Rows |-> 0], [i \in DOMAIN batch |-> batch[i].num_tokens]),
   block_tables |->
     Overwrite(graph_vars.block_tables,
               [i \in DOMAIN batch |->
                  [c \in Columns |->
                     IF c <= width THEN PaddedTable(batch[i], c)
                     ELSE graph_vars.block_tables[i][c]]])]

Handed(batch) == Serving /\ Len(batch) <= max_num_seqs

DecodeEager(batch) ==
  /\ Handed(batch)
  /\ Uncaptured(Len(batch))
  /\ EagerStep(batch)
  /\ UNCHANGED graphState

LargeEnough(batch) == {bs \in graphs : bs >= Len(batch)}

\* next(x for x in self.graph_bs if x >= bs) has nothing to return.
DecodeNoGraph(batch) ==
  /\ Handed(batch)
  /\ ~Uncaptured(Len(batch))
  /\ LargeEnough(batch) = {}
  /\ stopped' = "no graph"
  /\ UNCHANGED <<eagerVars, enforce_eager, graphs, graph_vars>>

\* The tables of the batch have more columns than the tensor they are copied to.
\* What is copied before the last assignment raises is never read again.
DecodeTooWide(batch) ==
  /\ Handed(batch)
  /\ ~Uncaptured(Len(batch))
  /\ LargeEnough(batch) # {}
  /\ \E width \in Widths(batch) : width > max_num_blocks
  /\ stopped' = "table too wide"
  /\ UNCHANGED <<eagerVars, enforce_eager, graphs, graph_vars>>

DecodeReplay(batch) ==
  /\ Handed(batch)
  /\ ~Uncaptured(Len(batch))
  /\ \E bs \in LargeEnough(batch), width \in Widths(batch) :
       /\ \A m \in LargeEnough(batch) : bs <= m
       /\ width <= max_num_blocks
       /\ graph_vars' = CopiedIn(batch, width)
       /\ kv_cache' = GraphStored(graph_vars', Sliced(bs))
       /\ outputs' = [i \in DOMAIN batch |-> GraphAttended(kv_cache', graph_vars', i)]
  /\ UNCHANGED <<max_num_seqs, enforce_eager, graphs, stopped>>

PrefillOrCopy ==
  /\ Serving
  /\ OtherWrite
  /\ UNCHANGED graphState

-----------------------------------------------------------------------------
CudaInit ==
  /\ EagerInit
  /\ enforce_eager \in BOOLEAN
  /\ graphs = {}
  /\ graph_vars = [input_ids |-> [i \in Rows |-> 0],
                   positions |-> [i \in Rows |-> 0],
                   slot_mapping |-> [i \in Rows |-> 0],
                   context_lens |-> [i \in Rows |-> 0],
                   block_tables |-> [i \in Rows |-> [c \in Columns |-> 0]]]
  /\ stopped = "none"

Decode(batch) ==
  \/ DecodeEager(batch) \/ DecodeNoGraph(batch)
  \/ DecodeTooWide(batch) \/ DecodeReplay(batch)

CudaNext ==
  \/ Capture
  \/ PrefillOrCopy
  \/ \E batch \in Batches : Decode(batch)

CudaSpec == CudaInit /\ [][CudaNext]_cudaVars

-----------------------------------------------------------------------------
(* Properties.                                                             *)

(***************************************************************************)
(* The tensors keep their shape, slot_mapping names slots or is -1, and no *)
(* graph but the fixed small ones has more rows than the tensors.          *)
(***************************************************************************)
CudaTypeOK ==
  /\ kv_cache \in [Slots -> (Token \cup {0}) \X Nat]
  /\ max_num_seqs \in MaxNumSeqs
  /\ enforce_eager \in BOOLEAN
  /\ graphs \subseteq SmallGraphs \cup Rows
  /\ graph_vars.input_ids \in [Rows -> Token \cup {0}]
  /\ graph_vars.positions \in [Rows -> Nat]
  /\ graph_vars.slot_mapping \in [Rows -> Slots \cup {-1}]
  /\ graph_vars.context_lens \in [Rows -> Nat]
  /\ graph_vars.block_tables \in [Rows -> [Columns -> BlockId \cup {-1}]]
  /\ stopped \in {"none", "no graph", "table too wide"}

(***************************************************************************)
(* Replaying a graph is the same as running the model: whatever earlier    *)
(* batches left in the tensors, the rows that pad the batch up to the size *)
(* of the graph write nothing, and the rows of the batch read only their   *)
(* own page tables.                                                        *)
(***************************************************************************)
ImplementsEager == EagerSpec

(***************************************************************************)
(* There is a graph for every batch up to the largest exactly if the       *)
(* largest is itself a recorded size: with any other max_num_seqs, the     *)
(* batches above the last multiple of 16 end the engine.  And the tensors  *)
(* are wide enough for every batch that keeps within max_model_len.        *)
(***************************************************************************)
Coverable == max_bs % GraphStep = 0 \/ \E bs \in SmallGraphs : bs >= max_bs

GraphsCover ==
  /\ Serving /\ ~enforce_eager =>
       (Coverable <=> \A n \in Rows : \E bs \in graphs : bs >= n)
  /\ stopped = "no graph" => ~Coverable
  /\ \A batch \in Batches :
       (\A i \in DOMAIN batch : batch[i].num_tokens <= MaxModelLen)
         => \A width \in Widths(batch) : width <= max_num_blocks

=============================================================================
