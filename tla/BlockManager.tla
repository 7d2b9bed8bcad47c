---------------------------- MODULE BlockManager ----------------------------
(***************************************************************************)
(* The paged KV cache allocator of prism_infer/engine/block_manager.py,    *)
(* together with the fields of a Sequence (engine/sequence.py) that it     *)
(* reads and writes.                                                       *)
(*                                                                         *)
(* The methods of BlockManager that loop over a page table (allocate,      *)
(* deallocate, swap_out, swap_in) are modelled one loop iteration per      *)
(* step; `op' says which method is executing and `cur' for which           *)
(* sequence.  The program is single threaded, so no other call starts      *)
(* while op # "idle".  The straight-line methods (copy_on_write,           *)
(* may_append) are one step each.                                          *)
(*                                                                         *)
(* The client of this module is any scheduler that respects the life cycle *)
(* of a sequence: allocate before the first token, then alternately        *)
(* append_token and copy_on_write + may_append, eviction only between the  *)
(* two, deallocate at the end.  It chooses freely which sequence goes next *)
(* and whether a sampled token ends a sequence.  Scheduler.tla replaces    *)
(* this client by the one of the code.                                     *)
(***************************************************************************)
EXTENDS Integers, FiniteSets, SequencesExt

CONSTANTS
  Request,       \* the Sequence objects that may be created
  Prompts,       \* the prompts (sequences of tokens) a request may carry
  Token,         \* the tokens the sampler may return
  MaxTokens,     \* sampling_params.max_tokens
  BlockSize,     \* tokens per KV cache block
  NumKvBlocks,   \* blocks of the GPU KV cache
  NumCpuBlocks,  \* blocks of the CPU swap space
  ChunkEnds,     \* prompt positions where the model runner may end a chunk
  NoRequest      \* the value of cur when no method is executing

ASSUME BlockManagerAssumption ==
  /\ BlockSize \in Nat \ {0, 1}
  /\ NumKvBlocks \in Nat \ {0}
  /\ NumCpuBlocks \in Nat
  /\ MaxTokens \in Nat \ {0}
  /\ ChunkEnds \subseteq Nat
  /\ Prompts \subseteq Seq(Token) \ {<<>>}
  /\ NoRequest \notin Request

VARIABLES
  \* fields of each Sequence
  token_ids,          \* prompt and completion tokens
  num_prompt_tokens,
  status,             \* SequenceStatus, "absent" before the object exists
  placed,             \* every token of the sequence has a KV slot (ghost)
  block_table,        \* GPU block ids of the sequence
  cpu_block_table,    \* CPU block ids of the sequence when it is swapped out
  num_cached_tokens,
  \* the physical blocks and the pool
  ref_count,          \* Block.ref_count
  block_hash,         \* Block.hash
  block_token_ids,    \* Block.token_ids
  free_block_ids,     \* queue of free GPU blocks
  used_block_ids,     \* set of GPU blocks in use
  hash_to_block_id,   \* prefix cache index
  cpu_free_block_ids, \* queue of free CPU blocks
  \* the method in execution and its local variables
  op, cur,
  chain,              \* h: hash of the blocks handled so far
  cache_miss,
  error               \* the exception that ended the program, or "none"

seqVars  == <<token_ids, num_prompt_tokens, status, placed>>
poolVars == <<ref_count, free_block_ids, used_block_ids>>
cacheVars == <<block_hash, block_token_ids, hash_to_block_id>>
callVars == <<op, cur, chain, cache_miss>>
vars == <<seqVars, block_table, cpu_block_table, num_cached_tokens,
          poolVars, cacheVars, cpu_free_block_ids, callVars, error>>

-----------------------------------------------------------------------------
(* Sequences.                                                              *)

BlockId == 0 .. NumKvBlocks - 1
CpuBlockId == 0 .. NumCpuBlocks - 1

SeqLen(s) == Len(token_ids[s])

num_completion_tokens(s) == SeqLen(s) - num_prompt_tokens[s]

\* Fault: one block too many when the last one is full.
num_blocks_loose(s) == SeqLen(s) \div BlockSize + 1

num_blocks(s) == (SeqLen(s) + BlockSize - 1) \div BlockSize

\* The tokens of the i-th block of a sequence; blocks count from 1 here.
block(s, i) ==
  SubSeq(token_ids[s], (i - 1) * BlockSize + 1,
         IF i * BlockSize <= SeqLen(s) THEN i * BlockSize ELSE SeqLen(s))

(***************************************************************************)
(* compute_hash chains xxh64 over the block contents, starting from the    *)
(* hash of the previous block.  Taking the hash of a chain to be the       *)
(* tokens of the whole chain makes it collision free; -1, the hash of a    *)
(* block that is not full and the prefix of the first block, is <<>>.      *)
(***************************************************************************)
NoHash == <<>>

compute_hash_unchained(tokens, prefix) == tokens   \* fault: ignores the prefix

compute_hash(tokens, prefix) == prefix \o tokens

-----------------------------------------------------------------------------
(* The pool.  Each operator fixes the next value of poolVars.              *)

\* Fault: the block stays in the free queue.
allocate_block_unremoved(b) ==
  /\ used_block_ids' = used_block_ids \cup {b}
  /\ ref_count' = [ref_count EXCEPT ![b] = 1]
  /\ UNCHANGED free_block_ids

allocate_block(b) ==
  /\ free_block_ids' = RemoveFirst(free_block_ids, b)
  /\ used_block_ids' = used_block_ids \cup {b}
  /\ ref_count' = [ref_count EXCEPT ![b] = 1]

\* Fault: the new reader is not counted.
ShareBlockUncounted(b) == UNCHANGED poolVars

ShareBlock(b) ==
  /\ ref_count' = [ref_count EXCEPT ![b] = @ + 1]
  /\ UNCHANGED <<free_block_ids, used_block_ids>>

\* Fault: the last reader does not give the block back.
ReleaseBlockKept(b) ==
  /\ ref_count' = [ref_count EXCEPT ![b] = @ - 1]
  /\ UNCHANGED <<used_block_ids, free_block_ids>>

\* Drop one reference, and give the block back when it was the last one.
ReleaseBlock(b) ==
  /\ ref_count' = [ref_count EXCEPT ![b] = @ - 1]
  /\ \/ /\ ref_count[b] = 1
        /\ used_block_ids' = used_block_ids \ {b}
        /\ free_block_ids' = Append(free_block_ids, b)
     \/ /\ ref_count[b] # 1
        /\ UNCHANGED <<used_block_ids, free_block_ids>>

\* Fault: a block that is not full is registered too.
LabelAlways(b, h, tokens) ==
  /\ block_hash' = [block_hash EXCEPT ![b] = h]
  /\ block_token_ids' = [block_token_ids EXCEPT ![b] = tokens]
  /\ hash_to_block_id' =
       [k \in DOMAIN hash_to_block_id \cup {h} |->
          IF k = h THEN b ELSE hash_to_block_id[k]]

(***************************************************************************)
(* Block.update together with the registration in the prefix cache; with   *)
(* h = NoHash it is the label Block.reset leaves behind.                   *)
(***************************************************************************)
Label(b, h, tokens) ==
  /\ block_hash' = [block_hash EXCEPT ![b] = h]
  /\ block_token_ids' = [block_token_ids EXCEPT ![b] = IF h = NoHash THEN <<>> ELSE tokens]
  /\ hash_to_block_id' =
       [k \in DOMAIN hash_to_block_id \cup ({h} \ {NoHash}) |->
          IF k = h THEN b ELSE hash_to_block_id[k]]

-----------------------------------------------------------------------------
(* Starting and ending a method.                                           *)

Idle == op = "idle" /\ error = "none"

Call(method, s) ==
  /\ op' = method
  /\ cur' = s
  /\ chain' = NoHash
  /\ cache_miss' = FALSE

ReturnHolding == Call("idle", cur)   \* fault: the sequence is not let go

Return == Call("idle", NoRequest)

\* An uncaught exception: the program stops where it is.
Raise(exception) ==
  /\ error' = exception
  /\ UNCHANGED <<seqVars, block_table, cpu_block_table, num_cached_tokens,
                 poolVars, cacheVars, cpu_free_block_ids, callVars>>

-----------------------------------------------------------------------------
(* Sequence.__init__ and append_token.                                     *)

NewSequence(s) ==
  /\ Idle
  /\ status[s] = "absent"
  /\ \E p \in Prompts :
       /\ token_ids' = [token_ids EXCEPT ![s] = p]
       /\ num_prompt_tokens' = [num_prompt_tokens EXCEPT ![s] = Len(p)]
  /\ status' = [status EXCEPT ![s] = "waiting"]
  /\ UNCHANGED <<placed, block_table, cpu_block_table, num_cached_tokens, poolVars,
                 cacheVars, cpu_free_block_ids, callVars, error>>

append_token(s, t) ==
  /\ Idle
  /\ status[s] = "running"
  /\ placed[s]
  /\ token_ids' = [token_ids EXCEPT ![s] = Append(@, t)]
  /\ placed' = [placed EXCEPT ![s] = FALSE]
  /\ UNCHANGED <<num_prompt_tokens, status, block_table, cpu_block_table,
                 num_cached_tokens, poolVars, cacheVars, cpu_free_block_ids,
                 callVars, error>>

\* With chunked prefill, the model runner makes num_cached_tokens the number
\* of tokens it has computed.
RecordComputed(s, n) ==
  /\ Idle
  /\ status[s] = "running"
  /\ placed[s]
  /\ num_cached_tokens' = [num_cached_tokens EXCEPT ![s] = n]
  /\ UNCHANGED <<seqVars, block_table, cpu_block_table, poolVars, cacheVars,
                 cpu_free_block_ids, callVars, error>>

-----------------------------------------------------------------------------
(* allocate                                                                *)

can_allocate(s) == Len(free_block_ids) >= num_blocks(s)

BeginAllocate(s) ==
  /\ Idle
  /\ status[s] = "waiting"
  /\ can_allocate(s)
  /\ Call("allocate", s)
  /\ UNCHANGED <<seqVars, block_table, cpu_block_table, num_cached_tokens, poolVars,
                 cacheVars, cpu_free_block_ids, error>>

NextTokens == block(cur, Len(block_table[cur]) + 1)

\* Only full blocks are hashed.
NextHash ==
  IF Len(NextTokens) = BlockSize THEN compute_hash(NextTokens, chain) ELSE NoHash

CacheHit ==
  /\ ~cache_miss
  /\ NextHash \in DOMAIN hash_to_block_id
  /\ block_token_ids[hash_to_block_id[NextHash]] = NextTokens

\* The end of an iteration of allocate, which put the sequence's next block in b.
AddToTable(b) ==
  /\ Label(b, NextHash, NextTokens)
  /\ block_table' = [block_table EXCEPT ![cur] = Append(@, b)]
  /\ \/ /\ Len(block_table[cur]) + 1 < num_blocks(cur)
        /\ chain' = NextHash
        /\ cache_miss' = ~CacheHit
        /\ UNCHANGED <<op, cur, status, placed>>
     \/ /\ Len(block_table[cur]) + 1 = num_blocks(cur)
        /\ Return
        /\ status' = [status EXCEPT ![cur] = "running"]
        /\ placed' = [placed EXCEPT ![cur] = TRUE]
  /\ UNCHANGED <<token_ids, num_prompt_tokens, cpu_block_table, cpu_free_block_ids, error>>

AllocateMiss ==
  /\ op = "allocate"
  /\ error = "none"
  /\ ~CacheHit
  /\ allocate_block(Head(free_block_ids))
  /\ AddToTable(Head(free_block_ids))
  /\ UNCHANGED num_cached_tokens

CountCached ==
  num_cached_tokens' = [num_cached_tokens EXCEPT ![cur] = @ + BlockSize]

\* Hit on a block that another sequence is using.
AllocateShared ==
  /\ op = "allocate"
  /\ error = "none"
  /\ CacheHit
  /\ hash_to_block_id[NextHash] \in used_block_ids
  /\ ShareBlock(hash_to_block_id[NextHash])
  /\ AddToTable(hash_to_block_id[NextHash])
  /\ CountCached

\* Hit on a block that is free but still holds its content.
AllocateRevived ==
  /\ op = "allocate"
  /\ error = "none"
  /\ CacheHit
  /\ hash_to_block_id[NextHash] \notin used_block_ids
  /\ allocate_block(hash_to_block_id[NextHash])
  /\ AddToTable(hash_to_block_id[NextHash])
  /\ CountCached

-----------------------------------------------------------------------------
(* deallocate: at the end of a sequence, and when it is evicted without    *)
(* swap space.                                                             *)

Finished(s) == num_completion_tokens(s) = MaxTokens

\* The sampled token is the eos token, or the last one allowed.
BeginFinish(s) ==
  /\ Idle
  /\ status[s] = "running"
  /\ ~placed[s]
  /\ Call("deallocate", s)
  /\ status' = [status EXCEPT ![s] = "finished"]
  /\ UNCHANGED <<token_ids, num_prompt_tokens, placed, block_table, cpu_block_table,
                 num_cached_tokens, poolVars, cacheVars, cpu_free_block_ids, error>>

\* One iteration of the loop over reversed(seq.block_table).
DeallocateStep ==
  /\ op = "deallocate"
  /\ error = "none"
  /\ ReleaseBlock(Last(block_table[cur]))
  /\ block_table' = [block_table EXCEPT ![cur] = Front(@)]
  /\ \/ /\ Len(block_table[cur]) > 1
        /\ UNCHANGED <<callVars, num_cached_tokens>>
     \/ /\ Len(block_table[cur]) = 1
        /\ Return
        /\ num_cached_tokens' = [num_cached_tokens EXCEPT ![cur] = 0]
  /\ UNCHANGED <<seqVars, cpu_block_table, cacheVars, cpu_free_block_ids, error>>

-----------------------------------------------------------------------------
(* Eviction.                                                               *)

can_swap_out(s) == Len(cpu_free_block_ids) >= Len(block_table[s])

\* Scheduler.preempt: swap out when there is room, else drop the KV cache.
Preempt(s) ==
  /\ Idle
  /\ status[s] = "running"
  /\ ~placed[s]
  /\ ~Finished(s)
  /\ \/ /\ can_swap_out(s)
        /\ Call("swap_out", s)
        /\ UNCHANGED status
     \/ /\ ~can_swap_out(s)
        /\ Call("deallocate", s)
        /\ status' = [status EXCEPT ![s] = "waiting"]
  /\ UNCHANGED <<token_ids, num_prompt_tokens, placed, block_table, cpu_block_table,
                 num_cached_tokens, poolVars, cacheVars, cpu_free_block_ids, error>>

\* Fault: cpu_free_block_ids is read, not popped.
TakeCpuBlockPeek == UNCHANGED cpu_free_block_ids

\* The CPU block at the head of the queue is taken.
TakeCpuBlock == cpu_free_block_ids' = Tail(cpu_free_block_ids)

(***************************************************************************)
(* One iteration of swap_out.  The code builds the table of CPU blocks in  *)
(* a local list and makes it seq.block_table at the end; here that list is *)
(* cpu_block_table[cur] all along, and block_table[cur] is cleared when it *)
(* would be overwritten.                                                   *)
(***************************************************************************)
SwapOutStep ==
  LET i == Len(cpu_block_table[cur]) + 1
  IN /\ op = "swap_out"
     /\ error = "none"
     /\ TakeCpuBlock
     /\ cpu_block_table' =
          [cpu_block_table EXCEPT ![cur] = Append(@, Head(cpu_free_block_ids))]
     /\ ReleaseBlock(block_table[cur][i])
     /\ \/ /\ i < Len(block_table[cur])
           /\ UNCHANGED <<block_table, status, callVars>>
        \/ /\ i = Len(block_table[cur])
           /\ block_table' = [block_table EXCEPT ![cur] = <<>>]
           /\ status' = [status EXCEPT ![cur] = "swapped"]
           /\ Return
     /\ UNCHANGED <<token_ids, num_prompt_tokens, placed, num_cached_tokens,
                    cacheVars, error>>

can_swap_in(s) == Len(free_block_ids) >= Len(cpu_block_table[s])

BeginSwapIn(s) ==
  /\ Idle
  /\ status[s] = "swapped"
  /\ can_swap_in(s)
  /\ Call("swap_in", s)
  /\ UNCHANGED <<seqVars, block_table, cpu_block_table, num_cached_tokens, poolVars,
                 cacheVars, cpu_free_block_ids, error>>

(***************************************************************************)
(* One iteration of swap_in's first loop, together with the iteration of   *)
(* its second loop that hashes the same block again: the first loop never  *)
(* reads a label.                                                          *)
(***************************************************************************)
SwapInStep ==
  LET i == Len(block_table[cur]) + 1
      gpu_id == Head(free_block_ids)
  IN /\ op = "swap_in"
     /\ error = "none"
     /\ free_block_ids' = Tail(free_block_ids)
     /\ used_block_ids' = used_block_ids \cup {gpu_id}
     /\ ref_count' = [ref_count EXCEPT ![gpu_id] = 1]
     /\ cpu_free_block_ids' = Append(cpu_free_block_ids, cpu_block_table[cur][i])
     /\ block_table' = [block_table EXCEPT ![cur] = Append(@, gpu_id)]
     /\ Label(gpu_id, NextHash, NextTokens)
     /\ \/ /\ i < Len(cpu_block_table[cur])
           /\ chain' = NextHash
           /\ UNCHANGED <<cpu_block_table, status, op, cur, cache_miss>>
        \/ /\ i = Len(cpu_block_table[cur])
           /\ cpu_block_table' = [cpu_block_table EXCEPT ![cur] = <<>>]
           /\ status' = [status EXCEPT ![cur] = "running"]
           /\ Return
     /\ UNCHANGED <<token_ids, num_prompt_tokens, placed, num_cached_tokens, error>>

-----------------------------------------------------------------------------
(* A slot for the last token: copy_on_write, then may_append.              *)

can_append(s) == SeqLen(s) % BlockSize = 1 => free_block_ids # <<>>

last_block(s) == Last(block_table[s])

CopyOnWrite(s) ==
  /\ Idle
  /\ status[s] = "running"
  /\ ~placed[s]
  /\ ~Finished(s)
  /\ can_append(s)
  /\ \/ /\ ref_count[last_block(s)] <= 1
        /\ Call("may_append", s)
        /\ UNCHANGED <<block_table, poolVars, cacheVars, error>>
     \/ /\ ref_count[last_block(s)] > 1
        /\ free_block_ids # <<>>
        /\ LET old == last_block(s)
               new == Head(free_block_ids)
           IN /\ free_block_ids' = Tail(free_block_ids)
              /\ used_block_ids' = used_block_ids \cup {new}
              /\ ref_count' = [ref_count EXCEPT ![new] = 1, ![old] = @ - 1]
              /\ Label(new, block_hash[old], block_token_ids[old])
              /\ block_table' = [block_table EXCEPT ![s][Len(block_table[s])] = new]
        /\ Call("may_append", s)
        /\ UNCHANGED error
     \/ /\ ref_count[last_block(s)] > 1
        /\ free_block_ids = <<>>
        /\ error' = "no free block"
        /\ UNCHANGED <<block_table, poolVars, cacheVars, callVars>>
  /\ UNCHANGED <<seqVars, cpu_block_table, num_cached_tokens, cpu_free_block_ids>>

RemainderAhead == (SeqLen(cur) + 1) % BlockSize   \* fault: off by one

Remainder == SeqLen(cur) % BlockSize

Appending ==
  /\ op = "may_append"
  /\ error = "none"

AppendDone ==
  /\ placed' = [placed EXCEPT ![cur] = TRUE]
  /\ Return
  /\ UNCHANGED <<token_ids, num_prompt_tokens, status, cpu_block_table,
                 num_cached_tokens, cpu_free_block_ids, error>>

\* The token is the first of a new block.
AppendNewBlock ==
  /\ Appending
  /\ Remainder = 1
  /\ block_hash[last_block(cur)] # NoHash
  /\ free_block_ids # <<>>
  /\ allocate_block(Head(free_block_ids))
  /\ Label(Head(free_block_ids), NoHash, <<>>)
  /\ block_table' = [block_table EXCEPT ![cur] = Append(@, Head(free_block_ids))]
  /\ AppendDone

\* The token fills the last block, which gets its hash.
AppendFillsBlock ==
  /\ Appending
  /\ Remainder = 0
  /\ block_hash[last_block(cur)] = NoHash
  /\ LET tokens == block(cur, num_blocks(cur))
         n      == Len(block_table[cur])
         prefix == IF n > 1 THEN block_hash[block_table[cur][n - 1]] ELSE NoHash
     IN Label(last_block(cur), compute_hash(tokens, prefix), tokens)
  /\ AppendDone
  /\ UNCHANGED <<block_table, poolVars>>

AppendInside ==
  /\ Appending
  /\ Remainder \notin {0, 1}
  /\ block_hash[last_block(cur)] = NoHash
  /\ AppendDone
  /\ UNCHANGED <<block_table, poolVars, cacheVars>>

\* The three assertions of may_append, and free_block_ids[0] on an empty queue.
AppendRaises ==
  /\ Appending
  /\ \/ /\ Remainder = 1
        /\ block_hash[last_block(cur)] = NoHash
        /\ Raise("previous block not hashed")
     \/ /\ Remainder = 1
        /\ block_hash[last_block(cur)] # NoHash
        /\ free_block_ids = <<>>
        /\ Raise("no free block")
     \/ /\ Remainder = 0
        /\ block_hash[last_block(cur)] # NoHash
        /\ Raise("full block already hashed")
     \/ /\ Remainder \notin {0, 1}
        /\ block_hash[last_block(cur)] # NoHash
        /\ Raise("partial block hashed")

-----------------------------------------------------------------------------
Init ==
  /\ token_ids = [s \in Request |-> <<>>]
  /\ num_prompt_tokens = [s \in Request |-> 0]
  /\ status = [s \in Request |-> "absent"]
  /\ placed = [s \in Request |-> FALSE]
  /\ block_table = [s \in Request |-> <<>>]
  /\ cpu_block_table = [s \in Request |-> <<>>]
  /\ num_cached_tokens = [s \in Request |-> 0]
  /\ ref_count = [b \in BlockId |-> 0]
  /\ block_hash = [b \in BlockId |-> NoHash]
  /\ block_token_ids = [b \in BlockId |-> <<>>]
  /\ free_block_ids = [i \in 1 .. NumKvBlocks |-> i - 1]
  /\ used_block_ids = {}
  /\ hash_to_block_id = [h \in {} |-> 0]
  /\ cpu_free_block_ids = [i \in 1 .. NumCpuBlocks |-> i - 1]
  /\ op = "idle"
  /\ cur = NoRequest
  /\ chain = NoHash
  /\ cache_miss = FALSE
  /\ error = "none"

AllocateStep == AllocateMiss \/ AllocateShared \/ AllocateRevived

AppendStep == AppendNewBlock \/ AppendFillsBlock \/ AppendInside \/ AppendRaises

\* Nothing happens after an exception, or when every request is finished.
Stopped ==
  /\ \/ error # "none"
     \/ op = "idle" /\ \A s \in Request : status[s] = "finished"
  /\ UNCHANGED vars

Next ==
  \/ \E s \in Request :
       \/ NewSequence(s)
       \/ \E t \in Token : append_token(s, t)
       \/ \E n \in ChunkEnds : RecordComputed(s, n)
       \/ BeginAllocate(s) \/ BeginFinish(s) \/ Preempt(s) \/ BeginSwapIn(s)
       \/ CopyOnWrite(s)
  \/ AllocateStep
  \/ DeallocateStep
  \/ SwapOutStep
  \/ SwapInStep
  \/ AppendStep
  \/ Stopped

Spec == Init /\ [][Next]_vars

-----------------------------------------------------------------------------
(* Properties.                                                             *)

Methods == {"idle", "allocate", "deallocate", "swap_out", "swap_in", "may_append"}

Exceptions == {"no free block", "previous block not hashed",
               "full block already hashed", "partial block hashed"}

(***************************************************************************)
(* Every field holds a value of its Python type: tables and queues hold    *)
(* valid block numbers, labels are token sequences, a status is one of     *)
(* SequenceStatus.                                                         *)
(***************************************************************************)
TypeOK ==
  /\ token_ids \in [Request -> Seq(Token)]
  /\ num_prompt_tokens \in [Request -> Nat]
  /\ status \in [Request -> {"absent", "waiting", "running", "swapped", "finished"}]
  /\ placed \in [Request -> BOOLEAN]
  /\ block_table \in [Request -> Seq(BlockId)]
  /\ cpu_block_table \in [Request -> Seq(CpuBlockId)]
  /\ num_cached_tokens \in [Request -> Nat]
  /\ ref_count \in [BlockId -> Int]
  /\ block_hash \in [BlockId -> Seq(Token)]
  /\ block_token_ids \in [BlockId -> Seq(Token)]
  /\ free_block_ids \in Seq(BlockId)
  /\ used_block_ids \subseteq BlockId
  /\ DOMAIN hash_to_block_id \subseteq Seq(Token)
  /\ hash_to_block_id \in [DOMAIN hash_to_block_id -> BlockId]
  /\ cpu_free_block_ids \in Seq(CpuBlockId)
  /\ op \in Methods
  /\ cur \in Request \cup {NoRequest}
  /\ cur = NoRequest <=> op = "idle"
  /\ chain \in Seq(Token)
  /\ cache_miss \in BOOLEAN
  /\ error \in Exceptions \cup {"none"}

(***************************************************************************)
(* The free queue and the used set split the GPU blocks between them, the  *)
(* queue holds no block twice, and the used blocks are those with a        *)
(* positive reference count (the assertions of _allocate_block and         *)
(* _deallocate_block).                                                     *)
(***************************************************************************)
PoolPartition ==
  /\ IsInjective(free_block_ids)
  /\ Range(free_block_ids) = BlockId \ used_block_ids
  /\ \A b \in BlockId : ref_count[b] >= 0 /\ (b \in used_block_ids <=> ref_count[b] > 0)

\* The entries of a GPU page table that swap_out has not given back yet.
Held(s) ==
  {i \in DOMAIN block_table[s] :
     op = "swap_out" /\ cur = s => i > Len(cpu_block_table[s])}

References(b) ==
  UNION {{<<s, i>> : i \in {j \in Held(s) : block_table[s][j] = b}} : s \in Request}

(***************************************************************************)
(* ref_count is the number of page table entries that name the block,      *)
(* between any two iterations of any method: nothing leaks, nothing is     *)
(* freed while a sequence still reads it.                                  *)
(***************************************************************************)
RefCountExact == \A b \in BlockId : ref_count[b] = Cardinality(References(b))

\* The entries of a CPU page table that swap_in has not given back yet.
HeldCpu(s) ==
  {i \in DOMAIN cpu_block_table[s] :
     op = "swap_in" /\ cur = s => i > Len(block_table[s])}

CpuReferences(b) ==
  UNION {{<<s, i>> : i \in {j \in HeldCpu(s) : cpu_block_table[s][j] = b}} : s \in Request}

(***************************************************************************)
(* A CPU block is in the free queue exactly once, or in one page table     *)
(* exactly once, through any number of swaps.                              *)
(***************************************************************************)
CpuPoolPartition ==
  /\ IsInjective(cpu_free_block_ids)
  /\ \A b \in CpuBlockId :
       Cardinality(CpuReferences(b)) = IF b \in Range(cpu_free_block_ids) THEN 0 ELSE 1

(***************************************************************************)
(* Between methods, the page table of a sequence is as long as its tokens  *)
(* need: all tokens when they are placed, all but the sampled one before   *)
(* may_append, and after eviction it lives on the side the status says.    *)
(***************************************************************************)
TablesFitTokens ==
  op = "idle" /\ error = "none" =>
    \A s \in Request :
      LET stored == IF placed[s] THEN SeqLen(s) ELSE SeqLen(s) - 1
          pages  == (stored + BlockSize - 1) \div BlockSize
      IN /\ Len(block_table[s]) = IF status[s] = "running" THEN pages ELSE 0
         /\ Len(cpu_block_table[s]) = IF status[s] = "swapped" THEN pages ELSE 0

\* The chain hash that the first i blocks of a sequence have.
PrefixHash(s, i) == SubSeq(token_ids[s], 1, i * BlockSize)

LastBlockOf(h) == SubSeq(h, Len(h) - BlockSize + 1, Len(h))

(***************************************************************************)
(* The index and the labels agree: a labelled block is indexed under its   *)
(* own hash or under another block with that hash, and its token_ids are   *)
(* the block that ends the chain.                                          *)
(***************************************************************************)
LabelsIndexed ==
  \A b \in BlockId :
    IF block_hash[b] = NoHash
    THEN block_token_ids[b] = <<>>
    ELSE /\ block_hash[b] \in DOMAIN hash_to_block_id
         /\ block_token_ids[b] = LastBlockOf(block_hash[b])

(***************************************************************************)
(* No two chains that were ever registered end with the same block.  The   *)
(* index never forgets a chain, so once this is false it stays false.      *)
(***************************************************************************)
BlocksDeterminePrefix ==
  \A h, k \in DOMAIN hash_to_block_id : LastBlockOf(h) = LastBlockOf(k) => h = k

(***************************************************************************)
(* Prefix caching is sound as long as a block content occurs under one     *)
(* prefix only: sequences that share a block share it at the same position *)
(* and agree on every token up to its end.                                 *)
(***************************************************************************)
SharersAgree ==
  BlocksDeterminePrefix =>
    \A s, t \in Request :
      \A i \in Held(s), j \in Held(t) :
        block_table[s][i] = block_table[t][j] =>
          /\ i = j
          /\ s # t => /\ i * BlockSize <= Len(token_ids[s])
                      /\ PrefixHash(s, i) = PrefixHash(t, i)

(***************************************************************************)
(* The comment on compute_hash: chaining guarantees that only equal        *)
(* prefixes match.  It does not: allocate compares the content of the      *)
(* block it finds, not its hash.                                           *)
(***************************************************************************)
HitsHaveSamePrefix ==
  op = "allocate" /\ CacheHit => block_hash[hash_to_block_id[NextHash]] = NextHash

(***************************************************************************)
(* Only full, hashed blocks are shared, whatever the mix of allocation,    *)
(* eviction and growth: the block that takes the next token has one owner. *)
(***************************************************************************)
SharedBlocksFull == \A b \in BlockId : ref_count[b] > 1 => block_hash[b] # NoHash

(***************************************************************************)
(* When may_append returns, the slot of the new token lies in a block that *)
(* no other page table names (what copy_on_write is for), and that is not  *)
(* free either.                                                            *)
(***************************************************************************)
WritesExclusive ==
  [][\A s \in Request :
       op = "may_append" /\ cur = s /\ placed'[s] =>
         LET b == Last(block_table'[s])
         IN /\ b \notin Range(free_block_ids')
            /\ \A t \in Request \ {s} : b \notin Range(block_table'[t])]_vars

(***************************************************************************)
(* A block that stays in use keeps its label: its content is never         *)
(* replaced under the sequences that read it.                              *)
(***************************************************************************)
UsedLabelsStable ==
  [][BlocksDeterminePrefix' =>
       \A b \in BlockId :
         ref_count[b] > 0 /\ ref_count'[b] > 0 /\ block_hash[b] # NoHash
           => block_hash'[b] = block_hash[b]]_vars

(***************************************************************************)
(* The assertions of may_append about a block that has just been left and  *)
(* about a block that is not full never fail, swapping included.           *)
(***************************************************************************)
BoundaryAssertionsHold ==
  error \notin {"previous block not hashed", "partial block hashed"}

(***************************************************************************)
(* The comment on the second assertion of may_append: a block that has     *)
(* just been filled has no hash yet.  A sequence swapped out and in again  *)
(* with its last block full comes back hashed.                             *)
(***************************************************************************)
FullBlockNotYetHashed == error # "full block already hashed"

(***************************************************************************)
(* schedule's comment on the loop over can_append: a sequence that leaves  *)
(* it can take its token.  can_append counts one block where copy_on_write *)
(* and may_append together take two.                                       *)
(***************************************************************************)
CanAppendSuffices == error # "no free block"

(***************************************************************************)
(* The block manager is a reference-counted page pool whose users are the  *)
(* page tables.                                                            *)
(***************************************************************************)
Pool ==
  INSTANCE PagePool
  WITH Page <- BlockId,
       User <- Request,
       free <- Range(free_block_ids),
       uses <- [b \in BlockId |->
                  [s \in Request |->
                     Cardinality({i \in Held(s) : block_table[s][i] = b})]]

(***************************************************************************)
(* Every step of every method takes, shares, drops or copies one page for  *)
(* one sequence, and the free queue holds exactly the pages without users. *)
(***************************************************************************)
ImplementsPagePool == Pool!Spec

=============================================================================
