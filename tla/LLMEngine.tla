------------------------------ MODULE LLMEngine ------------------------------
(***************************************************************************)
(* One engine step down to the KV cache: LLMEngine.step of                 *)
(* prism_infer/engine/llm_engine.py with the methods of ModelRunner that   *)
(* move or write KV data (engine/model_runner.py, layers/attention.py), on *)
(* one GPU.                                                                *)
(*                                                                         *)
(* Scheduler says which blocks a sequence has; this module says what is in *)
(* them.  The keys and values of a token depend on the token and all that  *)
(* precede it, so the content of a slot is the prefix of the sequence that *)
(* ends with the token the slot was written for, and <<>> before that.     *)
(*                                                                         *)
(* schedule decides while it goes along which blocks are copied, swapped   *)
(* in and swapped out, and returns the decisions as three lists; step      *)
(* carries them out afterwards, in an order of its own, each with one call *)
(* of the model runner: `stage' is the next call.                          *)
(***************************************************************************)
EXTENDS Scheduler

\* allocate_kv_cache makes the swap space half as large as the cache.
ASSUME EngineAssumption == NumCpuBlocks = NumKvBlocks \div 2

VARIABLES
  kv_cache,       \* content of the slots of each GPU block
  cpu_kv_cache,   \* content of the slots of each CPU block
  cow_pairs, swap_in_map, swap_out_map,   \* what schedule returns
  stage,
  clashed,        \* a step had two moves that touch one block (ghost)
  unstored        \* KV data counts as stored that never will be (ghost)

kvVars == <<kv_cache, cpu_kv_cache>>
moveVars == <<cow_pairs, swap_in_map, swap_out_map>>
ghostVars == <<clashed, unstored>>
engineVars == <<kvVars, moveVars, stage, ghostVars>>
systemVars == <<allVars, engineVars>>

Slots == 1 .. BlockSize

-----------------------------------------------------------------------------
(* schedule fills the three lists.                                         *)

EngineSchedule ==
  /\ Schedule
  /\ cow_pairs' = <<>>
  /\ swap_in_map' = <<>>
  /\ swap_out_map' = <<>>
  /\ UNCHANGED <<kvVars, stage, ghostVars>>

(***************************************************************************)
(* swap_in hashes every block that the tokens fill.  The last token, just  *)
(* sampled, has no KV data yet: if it fills a block, the prefix cache      *)
(* offers that block before it is complete.                                *)
(***************************************************************************)
EngineSwapIn ==
  /\ SwapInIteration
  /\ LET i == Len(block_table[cur]) + 1
     IN /\ swap_in_map' =
             Append(swap_in_map, <<cpu_block_table[cur][i], Head(free_block_ids)>>)
        /\ unstored' = (unstored \/ i * BlockSize = SeqLen(cur))
  /\ UNCHANGED <<kvVars, cow_pairs, swap_out_map, stage, clashed>>

\* Fault: the pair is the wrong way round.
EngineSwapOutReversed ==
  /\ EvictSwapStep
  /\ LET i == Len(cpu_block_table[cur]) + 1
     IN swap_out_map' =
          Append(swap_out_map, <<Head(cpu_free_block_ids), block_table[cur][i]>>)
  /\ UNCHANGED <<kvVars, cow_pairs, swap_in_map, stage, ghostVars>>

EngineSwapOut ==
  /\ EvictSwapStep
  /\ LET i == Len(cpu_block_table[cur]) + 1
     IN swap_out_map' =
          Append(swap_out_map, <<block_table[cur][i], Head(cpu_free_block_ids)>>)
  /\ UNCHANGED <<kvVars, cow_pairs, swap_in_map, stage, ghostVars>>

(***************************************************************************)
(* deallocate leaves num_computed_tokens: under chunked prefill, the       *)
(* sequence is not computed again when it starts over.                     *)
(***************************************************************************)
EngineDrop ==
  /\ EvictDropStep
  /\ unstored' = (unstored \/ num_computed_tokens[cur] > 0)
  /\ UNCHANGED <<kvVars, moveVars, stage, clashed>>

EngineDecode ==
  /\ Decode
  /\ \/ /\ block_table' = block_table
        /\ UNCHANGED cow_pairs
     \/ /\ block_table' # block_table
        /\ cow_pairs' =
             Append(cow_pairs, <<last_block(seq), Last(block_table'[seq])>>)
  /\ UNCHANGED <<kvVars, swap_in_map, swap_out_map, stage, ghostVars>>

-----------------------------------------------------------------------------
(* The calls of step before run.                                           *)

Calling(call) == phase = "run" /\ Idle /\ stage = call

\* The blocks of `to' after the pairs <<source, target>> are copied from `from'.
Transfer(to, from, pairs) ==
  [b \in DOMAIN to |->
     IF \E p \in Range(pairs) : p[2] = b
     THEN from[(CHOOSE p \in Range(pairs) : p[2] = b)[1]]
     ELSE to[b]]

(***************************************************************************)
(* A block that one call reads or writes and that schedule meant to be     *)
(* read or written by a later call first: a block swapped out before it    *)
(* became the target of a copy, a CPU block that was vacated by a swap in  *)
(* before it was reused, a GPU block filled by a swap in before it was     *)
(* swapped out again.                                                      *)
(***************************************************************************)
Clash ==
  \E out \in Range(swap_out_map) :
    \/ \E pair \in Range(cow_pairs) : pair[2] = out[1]
    \/ \E in \in Range(swap_in_map) : in[1] = out[2] \/ in[2] = out[1]

\* Fault: source and target are swapped.
CopyKvBlocksReversed ==
  /\ Calling("copy")
  /\ kv_cache' = FoldLeft(LAMBDA kv, p : [kv EXCEPT ![p[1]] = kv[p[2]]],
                          kv_cache, cow_pairs)
  /\ stage' = "swap_out"
  /\ clashed' = (clashed \/ Clash)
  /\ UNCHANGED <<allVars, cpu_kv_cache, moveVars, unstored>>

\* model_runner.call("copy_kv_blocks", cow_pairs)
CopyKvBlocks ==
  /\ Calling("copy")
  /\ kv_cache' = FoldLeft(LAMBDA kv, p : [kv EXCEPT ![p[2]] = kv[p[1]]],
                          kv_cache, cow_pairs)
  /\ stage' = "swap_out"
  /\ clashed' = (clashed \/ Clash)
  /\ UNCHANGED <<allVars, cpu_kv_cache, moveVars, unstored>>

\* Fault: the data stays on the GPU.
SwapBlocksOutSkipped ==
  /\ Calling("swap_out")
  /\ stage' = "swap_in"
  /\ UNCHANGED <<allVars, kvVars, moveVars, ghostVars>>

\* model_runner.call("swap_blocks", swap_out_map, "out")
SwapBlocksOut ==
  /\ Calling("swap_out")
  /\ cpu_kv_cache' = Transfer(cpu_kv_cache, kv_cache, swap_out_map)
  /\ stage' = "swap_in"
  /\ UNCHANGED <<allVars, kv_cache, moveVars, ghostVars>>

\* model_runner.call("swap_blocks", swap_in_map, "in")
SwapBlocksIn ==
  /\ Calling("swap_in")
  /\ kv_cache' = Transfer(kv_cache, cpu_kv_cache, swap_in_map)
  /\ stage' = "run"
  /\ UNCHANGED <<allVars, cpu_kv_cache, moveVars, ghostVars>>

-----------------------------------------------------------------------------
(* run: the slots that are written, then the slots that are read.          *)

last_block_num_tokens(s) == SeqLen(s) - (num_blocks(s) - 1) * BlockSize

Prefix(s, p) == SubSeq(token_ids[s], 1, p)

\* Positions of the tokens that are fed to the model, counted from 1.
Queries(s) ==
  IF is_prefill THEN QueryStart(s) + 1 .. QueryStart(s) + QueryLen(s) ELSE {SeqLen(s)}

\* Fault: the slots start with the first block, cached or not.
PrefillSlotUncached(s, p) ==
  LET n == p - QueryStart(s) - 1
  IN <<block_table[s][1 + n \div BlockSize], 1 + (n % BlockSize)>>

\* prepare_prefill: slot_mapping lists whole blocks, from the block where the
\* queries start.
PrefillSlot(s, p) ==
  LET n == p - QueryStart(s) - 1
  IN <<block_table[s][1 + QueryStart(s) \div BlockSize + n \div BlockSize],
       1 + (n % BlockSize)>>

\* prepare_decode: the last place in use of the last block.
DecodeSlot(s) == <<Last(block_table[s]), last_block_num_tokens(s)>>

Writes ==
  UNION {{<<IF is_prefill THEN PrefillSlot(s, p) ELSE DecodeSlot(s), Prefix(s, p)>> :
            p \in Queries(s)} : s \in Batch}

WritesTo(b, i) == {w \in Writes : w[1] = <<b, i>>}

\* store_kvcache: the cache that attention reads, since each layer stores the
\* keys and values of the whole batch first.
Stored ==
  [b \in BlockId |->
     [i \in Slots |->
        IF WritesTo(b, i) = {} THEN kv_cache[b][i]
        ELSE (CHOOSE w \in WritesTo(b, i) : TRUE)[2]]]

\* Attention.forward reads the cache if a sequence has tokens that are not fed.
ReadsCache == is_prefill => \E s \in Batch : QueryStart(s) > 0

\* How many tokens of the sequence attention covers.
ContextLen(s) == IF is_prefill THEN QueryStart(s) + QueryLen(s) ELSE SeqLen(s)

\* What attention finds for position p.
KvAt(kv, s, p) ==
  kv[block_table[s][1 + (p - 1) \div BlockSize]][1 + ((p - 1) % BlockSize)]

\* model_runner.call("run", seqs, is_prefill); an exception leaves the cache alone.
RunModel ==
  /\ Calling("run")
  /\ Run
  /\ kv_cache' = IF phase' \in Failures THEN kv_cache ELSE Stored
  /\ stage' = "copy"
  /\ UNCHANGED <<cpu_kv_cache, moveVars, ghostVars>>

-----------------------------------------------------------------------------
EngineInit ==
  /\ SchedulerInit
  /\ kv_cache = [b \in BlockId |-> [i \in Slots |-> <<>>]]
  /\ cpu_kv_cache = [b \in CpuBlockId |-> [i \in Slots |-> <<>>]]
  /\ cow_pairs = <<>>
  /\ swap_in_map = <<>>
  /\ swap_out_map = <<>>
  /\ stage = "copy"
  /\ clashed = FALSE
  /\ unstored = FALSE

\* A request arrives, or nothing is left to do.
ClientStep ==
  /\ (\E s \in Request : Add(s)) \/ AllDone
  /\ UNCHANGED engineVars

\* The steps of the scheduler that neither fill nor use the three lists.
SchedulerStep ==
  /\ \/ ResumePrefill \/ ResumeEnd \/ Admit \/ AdmitStep \/ AdmitEnd
     \/ SwapIn \/ SwapInEnd
     \/ PickDecode \/ Evict
     \/ DecodeStep \/ DecodeEnd \/ NothingScheduled
     \/ Record \/ RecordEnd
     \/ PostSkip \/ (\E t \in Token : PostAppend(t)) \/ PostContinue
     \/ PostFinish \/ PostFinishStep \/ PostEnd
  /\ UNCHANGED engineVars

\* Everything one call of LLMEngine.step does.
Step ==
  \/ SchedulerStep
  \/ EngineSchedule \/ EngineSwapIn \/ EngineSwapOut \/ EngineDrop \/ EngineDecode
  \/ CopyKvBlocks \/ SwapBlocksOut \/ SwapBlocksIn \/ RunModel

EngineNext == ClientStep \/ Step

EngineSpec == EngineInit /\ [][EngineNext]_systemVars

\* generate calls step as long as a request is unfinished.
FairEngine == EngineSpec /\ WF_systemVars(Step)

-----------------------------------------------------------------------------
(* Properties.                                                             *)

(***************************************************************************)
(* Slots hold prefixes, and the three lists pair blocks of the right sides.*)
(***************************************************************************)
EngineTypeOK ==
  /\ kv_cache \in [BlockId -> [Slots -> Seq(Token)]]
  /\ cpu_kv_cache \in [CpuBlockId -> [Slots -> Seq(Token)]]
  /\ cow_pairs \in Seq(BlockId \X BlockId)
  /\ swap_in_map \in Seq(CpuBlockId \X BlockId)
  /\ swap_out_map \in Seq(BlockId \X CpuBlockId)
  /\ stage \in {"copy", "swap_out", "swap_in", "run"}
  /\ clashed \in BOOLEAN
  /\ unstored \in BOOLEAN

\* Every key and value that the batch reads belongs to its own sequence.
ReadsRight ==
  Calling("run") /\ SlotsMatchQueries /\ ReadsCache =>
    \A s \in Batch :
      Queries(s) # {} => \A p \in 1 .. ContextLen(s) : KvAt(Stored, s, p) = Prefix(s, p)

(***************************************************************************)
(* A token attends to the keys and values of its own sequence: through     *)
(* cached prefixes, shared blocks, evictions and swaps, the cache holds    *)
(* what the page table promises, as long as no step had clashing moves, no *)
(* block was offered before it was complete, no chunked prefill started    *)
(* over, and no block content occurs under two prefixes.                   *)
(***************************************************************************)
ReadsOwnTokens == ~clashed /\ ~unstored /\ BlocksDeterminePrefix => ReadsRight

(***************************************************************************)
(* preempt's comment on swapping out: the KV cache is kept in CPU memory.  *)
(* It is not when the copies of one step overtake each other.              *)
(***************************************************************************)
SwapKeepsKv == ~unstored /\ BlocksDeterminePrefix => ReadsRight

(***************************************************************************)
(* Between steps, the CPU blocks of a swapped sequence hold the keys and   *)
(* values of all its tokens but the one sampled last, under the conditions *)
(* of ReadsOwnTokens.                                                      *)
(***************************************************************************)
SwappedKvKept ==
  phase = "idle" /\ Idle /\ ~clashed /\ ~unstored /\ BlocksDeterminePrefix =>
    \A s \in Request :
      status[s] = "swapped" =>
        \A p \in 1 .. SeqLen(s) - 1 :
          cpu_kv_cache[cpu_block_table[s][1 + (p - 1) \div BlockSize]]
                      [1 + ((p - 1) % BlockSize)] = Prefix(s, p)

(***************************************************************************)
(* Two sequences of a batch that write one slot write the same content: a  *)
(* block shared while its prompt is still being computed in chunks is      *)
(* written by every sequence that shares it.                               *)
(***************************************************************************)
WritersAgree ==
  Calling("run") /\ SlotsMatchQueries /\ BlocksDeterminePrefix =>
    \A v, w \in Writes : v[1] = w[1] => v[2] = w[2]

=============================================================================
