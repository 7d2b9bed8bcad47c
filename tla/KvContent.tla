------------------------------ MODULE KvContent ------------------------------
(***************************************************************************)
(* What the KV cache holds at any moment of a step: the invariant behind   *)
(* ReadsOwnTokens and SwappedKvKept of LLMEngine, proved in KvProofs.      *)
(*                                                                         *)
(* While schedule decides, the page tables run ahead of the data: a block  *)
(* already belongs to a sequence though the copy or the swap that fills it *)
(* is still on one of the three lists, or the token it is for is not yet   *)
(* computed.  The invariant therefore speaks of the caches as they will be *)
(* once the listed moves are carried out, and leaves out the slots that    *)
(* the batch is going to write.                                            *)
(***************************************************************************)
EXTENDS LLMEngine

(***************************************************************************)
(* Nothing has gone wrong that the engine does not recover from: no failed *)
(* assertion, no clash of moves, no block offered that will not be filled, *)
(* no block content under two prefixes.                                    *)
(***************************************************************************)

\* The moves on the lists are still to be made.
Pending == phase \in {"resume", "admit", "swap_in", "decode", "run"}

NoClash == ~clashed /\ ~(Pending /\ stage = "copy" /\ Clash)

Good == phase \notin Failures /\ NoClash /\ ~unstored /\ BlocksDeterminePrefix

-----------------------------------------------------------------------------
(* The caches after the moves on the lists.                                *)

CopiesOf(kv, pairs) == FoldLeft(LAMBDA c, p : [c EXCEPT ![p[2]] = c[p[1]]], kv, pairs)

CopiedKv == IF Pending /\ stage = "copy" THEN CopiesOf(kv_cache, cow_pairs) ELSE kv_cache

FinalCpu ==
  IF Pending /\ stage \in {"copy", "swap_out"}
  THEN Transfer(cpu_kv_cache, CopiedKv, swap_out_map)
  ELSE cpu_kv_cache

FinalKv ==
  IF Pending /\ stage # "run" THEN Transfer(CopiedKv, FinalCpu, swap_in_map) ELSE kv_cache

-----------------------------------------------------------------------------
(* What a sequence may count on.                                           *)

\* The position of the token in slot j of the i-th block of a page table.
Pos(i, j) == (i - 1) * BlockSize + j

Allocating(s) == op = "allocate" /\ cur = s

\* In the batch that computes prompts, or about to be in it.
Prefilling(s) ==
  \/ Allocating(s)
  \/ s \in Batch /\ phase = "admit"
  \/ s \in Batch /\ phase = "run" /\ is_prefill

\* In the batch that computes one token for each sequence.
Decoding(s) ==
  \/ s \in Batch /\ phase = "decode"
  \/ s \in Batch /\ phase = "run" /\ ~is_prefill

\* The chunk of s is stored, but not counted yet.
Uncounted(s) ==
  IF phase = "record" /\ s \in Range(todo) THEN RunnerChunk(s) ELSE 0

\* So many tokens of s have their keys and values in the blocks of s.
Have(s) ==
  IF Allocating(s) THEN IF EnableChunkedPrefill THEN 0 ELSE num_cached_tokens[s]
  ELSE IF status[s] \notin {"running", "swapped"} THEN 0
  ELSE IF ~placed[s] \/ Decoding(s) THEN SeqLen(s) - 1
  ELSE IF EnableChunkedPrefill /\ ~is_prefill_finished(s)
    THEN num_computed_tokens[s] + Uncounted(s)
  ELSE IF ~EnableChunkedPrefill /\ Prefilling(s) THEN num_cached_tokens[s]
  ELSE SeqLen(s)

\* The batch is going to write slot j of block b.
DuePrefill(b, j) ==
  /\ ~EnableChunkedPrefill
  /\ \E t \in Request :
       /\ Prefilling(t)
       /\ \E i \in Held(t) : /\ block_table[t][i] = b
                             /\ num_cached_tokens[t] < Pos(i, j) /\ Pos(i, j) <= SeqLen(t)

DueDecode(b, j) ==
  \E t \in Request :
    /\ Decoding(t)
    /\ \E i \in Held(t) : block_table[t][i] = b /\ Pos(i, j) = SeqLen(t)

\* Every sequence finds the keys and values of its own tokens in its blocks.
HeldRight ==
  \A s \in Request : \A i \in Held(s), j \in Slots :
    Pos(i, j) <= Have(s) =>
      \/ FinalKv[block_table[s][i]][j] = Prefix(s, Pos(i, j))
      \/ DuePrefill(block_table[s][i], j)

\* What the prefix cache offers is there: the tokens that the label names.
LabelPos(b, j) == (Len(block_hash[b]) - BlockSize) + j

LabelsRight ==
  ~EnableChunkedPrefill =>
    \A b \in BlockId, j \in Slots :
      block_hash[b] # NoHash =>
        \/ FinalKv[b][j] = SubSeq(block_hash[b], 1, LabelPos(b, j))
        \/ DuePrefill(b, j)
        \/ DueDecode(b, j)

\* The CPU blocks hold all tokens but the one sampled last.
CpuRight ==
  \A s \in Request : \A i \in HeldCpu(s), j \in Slots :
    Pos(i, j) <= SeqLen(s) - 1 =>
      FinalCpu[cpu_block_table[s][i]][j] = Prefix(s, Pos(i, j))

ContentInv == HeldRight /\ LabelsRight /\ CpuRight

-----------------------------------------------------------------------------
(* What that rests on.                                                     *)

StageInv == phase # "run" => stage = "copy"

\* The lists are filled in the order of schedule.
MovesInv ==
  /\ phase \in {"resume", "admit", "swap_in"} => cow_pairs = <<>> /\ swap_out_map = <<>>
  /\ phase \in {"resume", "admit"} => swap_in_map = <<>>

\* Each chunk is counted once.
TodoInv == phase = "record" => IsInjective(todo)

\* As long as the prefix cache answers, every block so far came from it.
CountedInv ==
  op = "allocate" /\ ~cache_miss =>
    num_cached_tokens[cur] = Len(block_table[cur]) * BlockSize

\* A prompt starts at its first token and is computed before a token is sampled.
ComputedInv ==
  \A s \in Request :
    /\ ~EnableChunkedPrefill => num_computed_tokens[s] = 0
    /\ ~unstored /\ status[s] \in {"absent", "waiting"} /\ ~(op = "deallocate" /\ cur = s) =>
         num_computed_tokens[s] = 0
    /\ EnableChunkedPrefill /\ ~is_prefill_finished(s) => num_completion_tokens(s) = 0

\* The block that takes the new token of a sequence in the batch is its own.
AloneInv ==
  \A t \in Request : Decoding(t) =>
    \A s \in Request : \A i \in Held(s) :
      block_table[s][i] = Last(block_table[t]) => s = t /\ i = Len(block_table[t])

\* Blocks that a swap in of this step fills.
InTarget(b) == \E p \in Range(swap_in_map) : p[2] = b

\* A block that is yet to be filled stays with the sequence it is filled for.
TargetsInv ==
  /\ phase \in {"swap_in", "decode"} => \A p \in Range(swap_in_map) : ref_count[p[2]] = 1
  /\ phase = "decode" => \A p \in Range(swap_out_map) : p[2] \notin Range(cpu_free_block_ids)

\* The sequences swapped in during this step.
Fresh == {s \in Request : \E i \in DOMAIN block_table[s] : InTarget(block_table[s][i])}

\* All their blocks are, and would find room to be swapped out again.
AllFresh ==
  {s \in Request :
     /\ \A i \in DOMAIN block_table[s] : InTarget(block_table[s][i])
     /\ Len(block_table[s]) <= Len(cpu_free_block_ids)}

(***************************************************************************)
(* What was swapped in during the step is at the end of running, and is    *)
(* never dropped: its CPU blocks are free, and are not taken before it is  *)
(* evicted itself, which is a clash.                                       *)
(***************************************************************************)
RoomInv ==
  phase \in {"swap_in", "decode"} =>
    /\ \A k \in DOMAIN running : running[k] \in Fresh => running[k] \in AllFresh
    /\ \A i, k \in DOMAIN running : i < k /\ running[i] \in Fresh => running[k] \in Fresh
    /\ op # "may_append" /\ seq \in Fresh =>
         seq \in AllFresh /\ \A k \in DOMAIN running : running[k] \in Fresh
    /\ op = "swap_in" => cur \in AllFresh
    /\ op = "swap_out" /\ cur \in Fresh => cur \in AllFresh
    /\ op = "swap_out" /\ cur \notin Fresh =>
         seq \notin Fresh /\ \A k \in DOMAIN running : running[k] \notin Fresh
    /\ op = "deallocate" => cur \notin Fresh

FreshInv == TargetsInv /\ RoomInv

-----------------------------------------------------------------------------

(***************************************************************************)
(* At every moment of a step the caches, as they will be once the listed   *)
(* moves are made and the batch has stored its tokens, hold what the page  *)
(* tables and the prefix cache promise, unless something has gone wrong    *)
(* that the engine does not recover from.                                  *)
(***************************************************************************)
KvInv ==
  /\ StageInv /\ MovesInv /\ TodoInv /\ CountedInv /\ ComputedInv /\ AloneInv
  /\ Good => FreshInv /\ ContentInv

=============================================================================
