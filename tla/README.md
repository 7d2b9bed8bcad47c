# Verification of prism_infer

prism_infer is an LLM inference engine: requests are queued, their prompts are
computed ("prefill"), tokens are generated one at a time ("decode"), and the
keys and values of all tokens live in a paged KV cache whose blocks are shared
between requests with equal prefixes, copied on write, and swapped to CPU
memory when the GPU runs short.  This directory holds TLA+ models of it, the
TLC configurations that check them, and TLAPS proofs.

Paths below are relative to `src/prism_infer/`.

## 1. Inventory

| component | state | operations | what makes it correct |
|---|---|---|---|
| Block manager, `engine/block_manager.py` | per block: `ref_count`, `hash`, `token_ids`; `free_block_ids`, `used_block_ids`, `hash_to_block_id`, `cpu_free_block_ids` | `allocate`, `deallocate`, `may_append`, `copy_on_write`, `swap_out`, `swap_in` and their `can_*` tests | no leak, no double free, exact reference counts; a shared block is full and its readers agree on every token before it; nobody writes a shared block |
| Sequence, `engine/sequence.py` | tokens, page table, status, cached and computed token counts | `append_token`, block arithmetic, pickling | page table fits the tokens |
| Scheduler, `engine/scheduler.py` | `waiting`, `running`, `swapped` | `add`, `schedule` (two prefill branches, swap-in, decode, eviction), `preempt`, `postprocess` | no request lost or duplicated, batches within limits, every request ends |
| Engine, `engine/llm_engine.py` | scheduler, model runner, worker processes | `add_request`, `step`, `generate`, `exit` | copies and swaps keep the KV data right |
| Model runner, `engine/model_runner.py` | GPU and CPU KV caches, CUDA graphs, shared memory | `run`, `copy_kv_blocks`, `swap_blocks`, `prepare_*`, `call`/`loop`/`read_shm`/`write_shm`, `capture_cudagraph` | each token is stored once, in its own slot; attention reads its own sequence; workers execute the calls rank 0 makes |
| Attention, `layers/attention.py`, `utils/context.py` | a view of the cache, a global context | `store_kvcache`, `forward` | one slot per token |
| Sharded layers, `layers/linear.py`, `layers/embed_head.py`, `utils/loader.py` | weight slices per rank | constructors, `weight_loader`, `load_model`, `forward` | every row of every weight is on one rank, in one place; the slices of consecutive layers fit together |
| Numeric layers (activation, layernorm, rotary, sampler) | none | tensor arithmetic | out of reach of TLC |
| Configuration, `config.py`, `sampling_params.py`, `llm.py` | constants | | |

Interaction: `generate` calls `step` until the queues are empty.  `step` calls
`schedule`, which calls the block manager and returns a batch with three lists
(blocks to copy, to swap in, to swap out); `step` then calls the model runner
once per list and once for the batch, and `postprocess` with the sampled
tokens.  Rank 0 forwards every model runner call to the workers through a
shared memory segment and events.  The models of Qwen3 (`models/qwen3.py`) and
the libraries (flash-attn, torch) are not part of the repository.

The hard behaviours, all listed with their lines under `hazards` in
PROJECT.json: long sequences of legal calls on hand-counted references; stale
entries of the prefix index; decisions taken by `schedule` and executed later
in another order; eviction in the middle of the loop over the queue it takes
from; the pool at its last block; lengths at block boundaries; state that
survives an eviction; prefill priority and head-of-queue re-insertion as
threats to progress; and the worker protocol.

## 2. Plan

In this order; all of them exist.

1. `PagePool`, `BlockManager`: the allocator, and what it promises.
2. `Scheduler` extends it: the queues, the loop of one engine step.
3. `LLMEngine` extends that: the contents of the KV cache, `step`'s calls,
   liveness.
4. `WorkerBatch` extends LLMEngine: the pickled sequences (`__getstate__`), and
   what a worker lacks when an evicted sequence is prefilled again.
5. `WorkerRPC`: the shared buffer, the events, `exit`.
6. `EagerDecode`, `CudaGraph`: decoding with graphs implements decoding without
   them.
7. `Sharding`: what each rank loads of a weight.
8. Proofs, one chain along the modules that extend each other:
   `BlockManagerProofs` (types, partition, counts, sizes of tables, refinement
   of `PagePool`, prefix index and sharing), `SchedulerProofs` (a client of the
   block manager; queues, batches, limits), `EngineProofs` (an implementation of
   the scheduler; workers, assertions of a step, token budget, bookkeeping of
   the moves), `KvProofs` (what the caches hold).  Beside it `FoldProofs` (sums
   over finite sets), `WorkerRPCProofs`, `CudaGraphProofs`, `ShardingProofs`.
9. `KvContent`: the invariant about the data still to be moved that the proofs
   of `ReadsOwnTokens` and `SwappedKvKept` rest on.

Nothing of the plan is left: every invariant that a passing run checks is
proved.  What stays with TLC is liveness (end of section 5), what stays outside
is section 6.

Runs use two or three requests, blocks of two tokens (three where a token has
to land inside a block) and pools of two to four blocks: small enough that
every request competes for the last block, large enough for two page tables
that share a prefix.

## 3. Modules

**PagePool.tla** is the abstract allocator: a page is free or has users, and
is free again exactly when the last user drops it.  Four operations: take,
share, drop, copy.

**BlockManager.tla** models `engine/block_manager.py` and the fields of
`Sequence` it uses.  Variables carry the names of the fields.  Methods that
loop over a page table take one step per iteration: `op` is the method that is
executing, `cur` its sequence, `chain` and `cache_miss` its local variables.
`may_append` and `copy_on_write` are one step each.  An assertion that fails,
and `free_block_ids[0]` on an empty queue, set `error` and end the behaviour.
The client of the module is the most general one that respects a sequence's
life cycle (allocate, then alternately append a token and find it a slot,
eviction in between, deallocate at the end).

| method | actions |
|---|---|
| `allocate` | `BeginAllocate`, then `AllocateMiss` / `AllocateShared` / `AllocateRevived` per block |
| `deallocate` | `BeginFinish` or `Preempt`, then `DeallocateStep` per block |
| `swap_out` | `Preempt`, then `SwapOutStep` per block |
| `swap_in` | `BeginSwapIn`, then `SwapInStep` per block |
| `copy_on_write` | `CopyOnWrite` |
| `may_append` | `AppendNewBlock`, `AppendFillsBlock`, `AppendInside`, `AppendRaises` |
| `Sequence.__init__`, `append_token` | `NewSequence`, `append_token` |

Abstractions.  A chain hash is the sequence of tokens it was computed from, so
xxh64 has no collisions.  `placed` is a ghost: every token of the sequence has
a slot.  The page table of a swapped sequence, which the code keeps in
`block_table`, is `cpu_block_table`; `swap_out` fills it directly instead of a
local list.  The two loops of `swap_in` (blocks, then hashes) are merged, since
the first reads no hash.  `hash_to_block_id` never forgets an entry, as in the
code.

**Scheduler.tla** extends BlockManager with the queues and one engine step.
`phase` is the place the engine's single thread has reached:

| `phase` | code | actions |
|---|---|---|
| `idle` | between steps | `Add`, `Schedule` |
| `resume` | chunked prefill: running sequences | `ResumePrefill`, `ResumeEnd` |
| `admit` | prefill from `waiting` | `Admit`, `AdmitStep`, `AdmitEnd` |
| `swap_in` | loop over `swapped` | `SwapIn`, `SwapInIteration`, `SwapInEnd` |
| `decode` | decode loop and `preempt` | `PickDecode`, `Evict`, `EvictSwapStep`, `EvictDropStep`, `Decode`, `DecodeStep`, `DecodeEnd`, `NothingScheduled` |
| `run`, `record` | `ModelRunner.run`, as far as it changes sequences or raises | `Run`, `Record`, `RecordEnd` |
| `postprocess` | `postprocess` | `PostSkip`, `PostAppend`, `PostContinue`, `PostFinish`, `PostFinishStep`, `PostEnd` |

The sampled token is any member of `Token`; `Eos` is one of them, or lies
outside for `ignore_eos`.  Failed assertions of the scheduler and the model
runner are phases of their own (`Failures`).  The lists `schedule` returns are
emptied when the step ends.

**LLMEngine.tla** extends Scheduler with the contents of the two KV caches and
with `step`'s calls.  The key and value of a token depend on the token and on
all tokens before it, so the content of a slot is the prefix that ends with the
token it was written for.  `EngineSwapIn`, `EngineSwapOut`, `EngineDrop` and
`EngineDecode` record the decisions of `schedule`; `CopyKvBlocks`,
`SwapBlocksOut`, `SwapBlocksIn` and `RunModel` carry them out in `step`'s order.  The slots that
`RunModel` writes are those of `prepare_prefill` and `prepare_decode`; what it
reads follows `Attention.forward`.  Two ghosts remember what later goes wrong:
`clashed` that some step had two moves of one block whose order matters,
`unstored` that KV data count as stored that never will be (below, under
disagreements).  The swap space is half the cache, as `allocate_kv_cache` makes
it.

**WorkerBatch.tla** extends LLMEngine with what the workers of tensor
parallelism receive.  Rank 0 pickles the batch before it prepares it;
`Pickled` is the record of the attributes a worker's copy has afterwards,
`WorkerRows` what `prepare_prefill` and `prepare_decode` make of it, `OwnRows`
the same on rank 0, and `WorkerFails` says that a worker reads an attribute its
copy does not have.  The module adds no action: a worker's copy lives as long
as the call.

**WorkerRPC.tla** models tensor parallelism: how rank 0 makes the workers
execute the method it executes.  One buffer, one event per worker, no answer.

| code | actions |
|---|---|
| `call` on rank 0 | `Call`, then `WriteSize`, `BeginData`, `EndData`, `SetEvent` per worker (`write_shm`), then `Execute` and, in a collective method, `Sync` |
| `read_shm` | `Wait`, `ReadSize`, `ReadData`, `Clear` |
| `loop` and `call` on a worker | `CallMethod` |
| `exit` | the call `exit`, `PassBarrier`, `Join` |

A call is identified by its number: the buffer holds the number whose length
and the number whose data it contains, and `Torn` while the data are being
copied.  A worker that reads data of another length than it read before may
fail in `pickle.loads`.  NCCL is external: rank 0 gets the tokens of a batch
(or passes the barrier) when all workers have issued their part, which `joined`
counts; a worker issues its part of a batch without waiting.  Which methods may
follow which is `step`'s order.  The ghost `overrun` records that a write began
before every worker had read the last call.

`run` can raise, and the method name says on which rank: `run` is a batch that
every rank can compute; `run_rank0_only` one that the workers cannot, because
their copies of the sequences lack an attribute (`WorkerFails` of WorkerBatch);
`run_nowhere` one that raises on every rank before rank 0 waits for anyone (the
slot assertion of attention.py, no graph for the batch, tables that are too
wide: the phase `slots differ` of Scheduler, `DecodeNoGraph` and `DecodeTooWide`
of CudaGraph).  `loop` catches nothing, so a worker that raises ends (`raised`)
without its part of the batch, and rank 0 then waits in `Sync`, or at the
barrier of `exit`, for ever: NCCL is taken to wait without a limit.  After an
exception of its own rank 0 (`raised`) may make further calls, as the caller of
`generate` may go on, and `exit` is called at the end.

**EagerDecode.tla** is what a decode step promises when graphs are disabled:
the keys and values of each sequence's last token are stored in its slot, the
sequence attends to the slots of all its tokens, nothing else changes.
**CudaGraph.tla** is the same with graphs.  `graph_vars` are the tensors the
graphs are bound to, with whatever the batches before left in them.

| code | actions |
|---|---|
| `capture_cudagraph`, one size | `Capture`: the warm-up runs on the real cache, so it stores into slot 0 |
| `run_model`, eager | `DecodeEager` |
| `run_model`, replay | `DecodeReplay`: the smallest graph that is large enough, `CopiedIn`, then the recorded kernels on all rows of the graph |
| `next(...)` finds no graph | `DecodeNoGraph` |
| the page tables are wider than the tensor | `DecodeTooWide` |
| prefills and block copies in between | `PrefillOrCopy` |

The key and value of a token are the token and its position: a row that is fed
or reads something else shows.  The batches are a constant, any set of batches
whose sequences have a block for every token and store into different slots,
which `WritersAgree` and `WritesExclusive` show of the scheduler's.

**Sharding.tla** loads one parameter on all ranks: `Construct` is the
constructor with its assertions, `Load` one weight of `load_model`'s loop with
the `weight_loader` of its kind, both with the exceptions they can raise.  The
shards of a parameter (q, k, v; gate, up) come in any order, since `glob`
promises none, and any of them may be missing from the checkpoint.  A weight is
its rows along the divided dimension; the other dimension plays no part.
`Embedded` and `LogitRow` are what the vocabulary layers compute from the
slices.

**KvContent.tla** has no actions: it states `KvInv`, what the two caches hold at
every moment of LLMEngine's step, for `engine_evict` and for `KvProofs`.

**The proof modules** (`*Proofs.tla`) declare nothing that the runs use; section 5
describes them.

**MCBlockManager, MCScheduler, MCLLMEngine, MCWorkerRPC, MCCudaGraph, MCSharding**
define the prompts, batches, weights and symmetry of the instances.  Operators marked "fault" are plausible slips of the
code (a block not taken off the queue, a hash that forgets its prefix, `>` for
`>=`, ...); each property is known to be violated when the operator that follows
the fault is replaced by it.

## 4. Runs

Bounds: `MaxTokens` is `sampling_params.max_tokens` and bounds every sequence;
the sets of requests and prompts bound the rest.  `MaxCalls` bounds the calls
of rank 0.  No counter is cut off.  Deadlock is checked in the runs of
BlockManager, Scheduler and LLMEngine: a behaviour may stop only after an
exception or when no request is left.  In WorkerRPC rank 0 may simply make no
further call, and after an overrun, or once an exception has ended a worker, the
processes may hang; `CallsReturn` and `CallsReachWorkers` say what is left of
progress when neither happens.  In CudaGraph an exception ends the engine, and in
Sharding loading ends.  Symmetry permutes the requests, except in
`engine_evict`, which checks liveness.

| run | instance | what it shows |
|---|---|---|
| `blocks` | 2 requests with blocks of three tokens, 3 GPU and 2 CPU blocks, prompts with prefixes in common | allocator invariants under shared prefixes, copies, eviction and swapping, tokens that land inside, at the end and behind a block; every step refines `PagePool` |
| `engine_evict` | 3 requests, 4 GPU and 2 CPU blocks, batch of 2, budget 6 | queues, batches and assertions when eviction swaps a sequence or drops its cache; budget and batch limit bind; every request ends; the caches hold what `KvInv` says at every moment of a step, so that attention reads its own sequence unless a step's moves clash; workers prepare the rows rank 0 prepares, or cannot |
| `engine_chunked` | 3 requests, 4 GPU and 2 CPU blocks, chunks of 2, budget 3 | the batch exceeds what was counted, and the budget, by less than a chunk at most (`CountedWithinLimits`); KV data (`ReadsOwnTokens`) through evictions and exceptions, prefixes shared while still being computed; the scheduler is a client the block manager allows |
| `workers` | rank 0 and 2 workers, 3 calls | workers follow rank 0 and read whole calls unless a write overruns; batches flush; calls return and arrive unless a write overruns or an exception ends a worker |
| `cuda_graph` | graphs of 1, 2 and 4 rows, largest batch 1, 3, 4 or 5, ten batches of 1 to 5 sequences, tables of at most 2 blocks | replaying over stale rows and columns is eager decoding; which batches have no graph |
| `sharding` | 1 to 4 ranks, single weights of 1 to 8 rows, pairs of up to 6, up to 4 query and 4 key heads of 1 or 2 rows | every row in one place, layers and heads fit together, what raises |

Why the instances are large enough.  In `blocks` two page tables of two
blocks need more than the pool has unless they share, so allocation, reuse of
freed blocks and eviction all occur at the last block.  In
`engine_evict` the long prompt needs three blocks and is dropped, because
the CPU pool has two, and the short ones are swapped, with maps of up to two
blocks; the budget of 6 is the longest sequence that can have to be prefilled
again (config.py asserts `max_num_batched_tokens >= max_model_len`), and the
long and the short prompt together exceed it; copies, clashing moves and a
restarted sequence that the workers cannot prefill all occur.  The budget of 3
in `engine_chunked` cuts the second chunk of a batch short, prompts take one to
four chunks, and the run goes through the exception that `chunked_restart`
shows and the failed assertion of `schedule` when a request outgrows the pool.
Three calls let one follow a batch that flushed and one follow a copy that did
not (the first step has nothing to copy), two workers may stand on different
sides of each, and two calls may follow a batch that raised.  In `cuda_graph`
largest batches of 4 are a recorded size, 1 is a small one, 3 lies between
sizes and 5 above the cap; two batches of every length follow each other in any
order with prefills in between, blocks pass from one sequence to another, and
one sequence has outgrown the tables.  In `sharding` every remainder of up to
four ranks occurs, weights with fewer rows than ranks among them, and sums that
can be divided while their terms cannot.

What the properties say is in the comment above each definition.  Those worth
pointing out: `RefCountExact` holds between any two iterations of any method,
not only between calls; `SharersAgree` and `UsedLabelsStable` are the soundness
of the prefix cache, under the condition `BlocksDeterminePrefix` that the
violation `false_prefix_hit` shows to be needed; `BatchReady` says that no
sequence of a batch was evicted by a later iteration of the loop that scheduled
it; `ReadsOwnTokens` is the end-to-end statement about KV data, with the three
conditions under which the code keeps it: `~clashed`, `~unstored` and
`BlocksDeterminePrefix`.  `engine_evict` checks `KvInv` in its place, from which
it follows (section 5).

Fairness: `WF(Step)` in `engine_evict`.  `generate` calls `step` in a loop
without waiting for anything, and `Step` is everything one call does; adding
requests is not fair.  Evicted sequences return to the head of `waiting`, and
the last running sequence always fits in the instance's pool, so progress needs
no stronger assumption.  In WorkerRPC each process is fair: the writes and
waits of rank 0 once a call has been made, and every worker.  Nobody has to
make a call.

### Disagreements between code and documentation

Each is a run that TLC ends with a counterexample.

| run | the code | the statement |
|---|---|---|
| `false_prefix_hit` | a hit compares the block's content, not its chain hash | `block_manager.py:62`: only equal prefixes match |
| `rehash_after_swap` | `swap_in` hashes a block that the sampled token fills before the token is stored | `block_manager.py:170`: no hash before it is filled |
| `copy_without_block` | `can_append` asks for one block where two are needed | `scheduler.py:109`: the sequence can be appended to |
| `chunked_restart` | `deallocate` leaves `num_computed_tokens` | `attention.py:61`: one slot per token |
| `swap_clash` | `step` swaps out before it swaps in, `schedule` decided the other way round | `scheduler.py:125`: the KV cache is kept in CPU memory |
| `lost_call` | `write_shm` does not wait until the last call has been read, and copies and swaps do not synchronise the ranks | `model_runner.py:105`: the workers execute the same operations |

Four properties of passing runs say exactly when the code fails, where its
comments expect it to work.

* `CountedWithinLimits`: `run` computes `min(remaining, max_chunk_size)` tokens of
  each sequence (`model_runner.py:462`) and does not know the rest of the budget
  to which `schedule` cut the chunk, so a chunked batch may exceed the limit of
  `config.py:10` (so many tokens at most in a batch).  With a budget of 3 and
  chunks of 2, as in `engine_chunked`, two prompts are counted as 2 + 1 tokens and
  computed as 2 + 2.  That happens only when the budget is used up, and the excess
  is less than one chunk.  `TokensWithinLimit` is the limit of `config.py` itself,
  kept without chunked prefill only.
* `WorkersPrepareSame`: a worker's copy of a sequence has neither `seq_id` nor
  `num_computed_tokens` (`sequence.py:105`), which `run` reads under chunked
  prefill (on by default), and no `token_ids` once a token was sampled
  (`sequence.py:98`).  So with tensor parallelism every chunked prefill, and every
  prefill of a sequence that was evicted and dropped, ends in an AttributeError on
  the workers.  What follows is in WorkerRPC: rank 0 never returns from such a
  batch (`CollectivesFlush`), and nothing tells it why.
* `GraphsCover`: when the largest batch is above 8 and no multiple of 16, there is
  no graph for the batches above the last multiple, although
  `model_runner.py:525` says that the next larger size is used.
* `LoadsExactly`: the bias of a RowParallelLinear never loads (`linear.py:212`).

Three more were met and have no run of their own.

* A prompt that is found in the prefix cache to its last token contributes no
  query token to its batch (`block_manager.py:117`, `QueryLen` is 0), yet
  `embed_head.py:106` selects one row of logits for every sequence.
* A block that `swap_in` hashes too early (`rehash_after_swap`) may be hit by
  another request before the token that fills it is stored, and that request
  then reads a slot nobody wrote.  Without the condition `~unstored`, TLC finds
  `ReadsOwnTokens` violated after about a hundred steps of an instance with
  four requests, prompts `<<2,2,2>>`, `<<1>>`, `<<2>>`, `<<1,2,2>>`, tokens 1 and
  2, `MaxTokens` 3, blocks of 2, four GPU and two CPU blocks, batches of one.
* A sequence that starts over under chunked prefill (`chunked_restart`) passes
  the slot assertion if its prompt ends with a block, and then nobody computes
  the tokens it had sampled.  TLC finds it with three requests, prompts
  `<<1,2>>` and `<<2,1,1,1>>`, blocks and chunks of 2 and a pool of 4.

The runs are too small for the last two, which were found while looking for an
inductive invariant of `ReadsOwnTokens`.

## 5. Proofs

TLAPS proves the theorems below for every value of the constants that satisfies
the named assumptions of the modules: any number of requests, blocks, tokens,
ranks or calls.  In a comment above each invariant the modules say what it adds
and why the property is not inductive without it.

### The block manager (`BlockManagerProofs`)

* `TypeCorrect`: `Spec => []TypeOK`.  TypeOK is not inductive:
  `Head(free_block_ids)` is a block only if the queue is not empty when a method
  pops it, and the last entry of a table exists only if the table is not empty.
  `TypeInv` adds what is needed: while `allocate` or `swap_in` runs, the free
  queue is long enough for the rest of the loop, while `swap_out` runs so is the
  CPU queue, and running sequences outside a method have a page table.
* `RefCountsExact`, `PoolPartitioned`: `Spec => []RefCountExact`,
  `Spec => []PoolPartition`.  The two are proved together as `PoolInv`: that a
  block taken from the queue has no references needs the partition, and that a
  released block may enter the queue needs the exact count.  The argument for a
  step counts `References(b)`: appending an entry to a table adds one element to
  one such set, dropping the entry at the front or the back removes one.
* `TablesFit`: `Spec => []TablesFitTokens`, from `FitInv`, which also says how
  far each loop has come.  `CpuPoolPartitioned`: `Spec => []CpuPoolPartition`,
  from `CpuInv`: every CPU block in use has one owner, a swapped sequence or the
  one that is being moved, and one place in its table.
* `PagePoolImplemented`: `Spec => ImplementsPagePool`.  Each step is a take,
  share, drop or copy of the abstract allocator, or a stutter; the users of a
  page are the `References` of the block, so exact counts are what makes "free
  again" agree.
* `CacheInvariant` and what follows from it: `LabelsAlwaysIndexed`,
  `OnlyFullBlocksShared`, `SharersAlwaysAgree`, `BoundaryAssertionsNeverFail`,
  and the action properties `WritesAlwaysExclusive` and `UsedLabelsNeverChange`.
  `CacheInv` says which positions of a page table are labelled and that the
  label of position i is the chain over the first i blocks of the sequence's
  tokens; the block `may_append` labels before its last token is stored, and the
  hashes `swap_in` computes, are its exceptional cases.  Sharing is only ever
  established through a label, so sharers agree (under `BlocksDeterminePrefix`,
  which `false_prefix_hit` shows to be needed), and a block that is written has
  no label or one user.

### The scheduler (`SchedulerProofs`)

* `BlockManagerImplemented`: `SchedulerSpec => ImplementsBlockManager`.  The
  scheduler calls each method only when the block manager's client may, in
  particular after the right `can_*` test; so all theorems above hold of it, and
  the proofs below use them.  `ClientInv` ties `phase` to the method that runs.
* `SchedulerTypeCorrect`: `SchedulerSpec => []SchedulerTypeOK`.
* `QueuesAlwaysMatch`: a sequence is in exactly the queue its status names, once,
  through evictions in the middle of the loop over the queue (`QueueInv` gives
  the sequence under way its place).  `NothingEverLeaks` follows with the
  partitions: when no request is left, all blocks are free.
* `BatchAlwaysReady`: nothing that was scheduled is evicted later in the same
  step.  `PlacedInv` says which of the running sequences have a slot for their
  last token.
* `DecodeAlwaysTakesAll`: from `LimitInv`, on what `schedule` has put into the
  batch so far.
* `SlotsAlwaysAgree`: without chunked prefill, a batch has as many slots as
  queries, the assertion of `store_kvcache`.  With it this is refuted by
  `chunked_restart`.

### The engine (`EngineProofs`)

* `SchedulerImplemented`: `EngineSpec => SchedulerSpec`; moving and computing KV
  data does not interfere with scheduling.
* `WorkersAlwaysPrepareSame`: `EngineSpec => []WorkersPrepareSame`, from
  `LengthInv` (how many tokens each sequence may still receive) and `SampledInv`.
* `AlwaysFindsWork`, `StepAssertionsAlwaysHold`: `schedule` never comes away
  empty-handed while requests are left, under `RequestsFit`: every request, with
  all the tokens it may sample, fits into the pool and into the token budget.
  config.py asserts `max_num_batched_tokens >= max_model_len`; that a request
  fits into the pool the code checks nowhere, and `schedule` fails its assertion
  when one does not.
* `EngineTypeCorrect`: `EngineSpec => []EngineTypeOK`.  The lists pair blocks of
  the right sides because `schedule` pops a queue or reads a table only where
  `TypeInv` says it is long enough; what `RunModel` stores are prefixes because
  the positions it is fed are positions of the sequence (`QueriesWithin`).
* `WritersAlwaysAgree`: `EngineSpec => []WritersAgree`.  The slot mapping puts a
  position where attention looks for it (`SlotOfQuery`, on multiples of the block
  size), so two writers of a slot hold the same block, and `CacheInv` says that
  the holders of a block expect the same in it (`HoldersExpectSame`).
* `LimitsAlwaysKept`: `SchedulerSpec => []CountedWithinLimits`, and
  `TokensAlwaysWithinLimit`: `SchedulerSpec => []TokensWithinLimit`, the limit of
  `config.py` without chunked prefill.  `ChargeInv` and, with chunks, `ChunkInv`
  compare what `schedule` charged with what the batch will compute, sequence by
  sequence; the limits are about the sum.  A chunk is charged in full unless it was
  cut to the rest of the budget; then the budget is used up, so that no other
  follows, and the excess is less than that chunk.  With chunks the charge comes
  before `allocate`, so `ChunkInv` counts the sequence being admitted as well.  `FoldProofs` has
  the lemmas on sums over finite sets: a sum is what a function built up along an enumeration says (`NumbersFromZero`,
  `SumOf...`), and the lemmas follow by induction on the size of the set, stated
  with explicit sets of counterexamples, as the library's induction rules have
  an operator as a parameter.

### The KV data (`KvContent`, `KvProofs`)

* `ReadsAlwaysOwn`: `EngineSpec => []ReadsOwnTokens`, for every size of the two
  caches, every number of requests and every setting of the scheduler: whatever
  is shared, copied, computed in chunks, evicted and swapped, attention finds at
  each position the keys and values of its own sequence.  `SwappedAlwaysKept`:
  `EngineSpec => []SwappedKvKept`.  Both hold up to the three events that the
  violations `swap_clash`, `rehash_after_swap` with `chunked_restart`, and
  `false_prefix_hit` show to be needed as exceptions.
* `KvInvariant`: `EngineSpec => []KvInv`, from which the two follow.  Neither is
  inductive, nor is any statement about the caches as they are: `schedule`
  gives a sequence a block before the copy or the swap that fills it has been
  made, and the batch gets its slots before it writes them.  `ContentInv`
  therefore speaks of `FinalKv` and `FinalCpu`, the caches as they will be when
  the moves still on the lists are made in the order of `step`, and leaves out
  the slots that the batch is due to write.  For the rest it says what each party
  relies on: a page table entry holds the sequence's own prefix at each position
  the sequence counts on (`HeldRight`; how many those are depends on where the
  sequence is, `Have`), a labelled block holds the tokens of its label
  (`LabelsRight`, the promise of the prefix cache), and a CPU block what was
  swapped out (`CpuRight`).
* A move that is added to a list must not disturb those already there, which the
  code nowhere checks.  The rest of `KvInv` says why it does not: the lists fill
  up in the order of `schedule`'s branches (`MovesInv`); the target of a swap-in
  has one reference, so nobody shares or copies it, and the target of a swap-out
  stays off the free queue (`TargetsInv`); what was swapped in during the step is
  at the end of `running`, is not dropped (its CPU blocks are free), and is
  swapped out again only by a clash (`RoomInv`).  `AloneInv` says that from the
  step that gives a new token its slot until the token is stored, the block is in
  no other table; `CountedInv`, `ComputedInv` and `TodoInv` tie the counters of
  cached and computed tokens to what is stored.
* The proof follows the code: the three calls of `step` leave `FinalKv` and
  `FinalCpu` alone (`FinalCalls`), adding a move changes just its target
  (`FinalSwapIn`, `FinalSwapOut`, `FinalDecode`), then one lemma per operation
  (`AdmitStepContent` for a step of `allocate`, `SwapInContent`, and so on) up to
  the batch, which writes what was due and nothing else that anyone counts on
  (`RunContent`, on `HoldersExpectSame` and `WritersAgree`'s lemmas).  `GoodKept`
  says that what has gone wrong stays wrong, so the exceptions need be
  considered only at the step that makes them.

### The worker protocol (`WorkerRPCProofs`)

For every set of workers and every number of calls:

* `WorkersFollowUnlessOverrun` and `CollectivesFlushWorkers`:
  `RpcSpec => []FollowUnlessOverrun`, `RpcSpec => []CollectivesFlush`.  The
  invariant is `InStep`: before an overrun, `Good` holds.  `Good` says where
  each worker stands: it has taken every call from the buffer, or all but the
  last, and lacks the last exactly while that is being written or its event is
  set (`ReadingGood`); the buffer holds the last call once it is written
  (`BufferGood`); and its count of collective operations agrees with rank 0's
  up to the last call (`JoinedGood`), so that rank 0 passes one only when the
  worker has executed it, without an exception.  There is one lemma per step of a process;
  `InStepInvariant` puts them together.
* `RpcTypeCorrect`: `RpcSpec => []RpcTypeOK`, also after an overrun, when the
  workers read what they should not.

### CUDA graphs (`CudaGraphProofs`)

For every block size, cache, series of graph sizes, `max_num_seqs`,
`max_model_len` and set of legal batches (`DecodeAssumption`,
`GraphAssumption`):

* `GraphsCoverExactly`: `CudaSpec => []GraphsCover`.  The invariant `GraphInv`
  says that the captured sizes are recorded ones; the rest is arithmetic on
  multiples (`SizesCover`) and on rounding up to blocks (`WidthsFit`).
* `CudaTypeCorrect` and `CudaImplementsEager`: `CudaSpec => []CudaTypeOK`,
  `CudaSpec => EagerSpec`.  `CudaInv` adds to the types that until the last
  capture the tensors are zero and slot 0 is unused, so that the warm-ups store
  what is there already (`CaptureKeepsCache`).  A replay is an eager step because
  the rows of the batch hold its sequences (`RowsCopied`), the padding rows hold
  slot -1, which is no slot (`ReplayStores`), and page table entries within the
  context are those just copied (`ReplayAttends`).  `LastSlotIsSlot` proves that
  the two ways the code computes a slot agree.

### Weight sharding (`ShardingProofs`)

For every size, number of ranks and number of heads:

* `SlicesPartition`, `UnevenNeverLoads`: `chunk` and `narrow` take the same
  slices and the slices partition a dimension that can be divided; one that
  cannot is rejected by some rank's `copy_`.
* `LoadInvariant` and, from it, all properties of the run: `ShardingTypeCorrect`,
  `LoadsExactlyDivisible`, `EachRowLoadedOnce`, `ShardsAlwaysCompose`.  `LoadInv`
  says what a rank's parameter holds: the rows its loaded shards put there, and
  nothing elsewhere.  The sizes of a parameter and the offsets of its shards are
  sums that are divided before or after they are added; shards never overlap
  because rounding down a sum loses at least what rounding its terms loses
  (`PlacesApart`), and they fill the parameter when every term divides.

### Only model checked

Liveness (`EveryRequestEnds`, `CallsReturn`, `CallsReachWorkers`), which needs
rules for ENABLED and fairness that the prover does not have.  All other
properties of the passing runs are proved.

## 6. Not modelled

* The rendezvous of the processes and the attachment of the shared memory in
  `__init__`; the size of the buffer (1 MB), which a very long batch could
  exceed.
* Hash collisions of xxh64, floating-point arithmetic (matrix products,
  rotary embedding, normalisation, activation, the sums of `all_reduce`),
  sampling probabilities, temperature, tokenising, logging, timing.
* `warmup_model`, and the memory measurement in `allocate_kv_cache`: its results
  are constants, and every rank has the same number of blocks.
* What NCCL does about a process that has ended (errors, time limits): rank 0
  waits for it.  Exceptions of a worker other than those above and a failing
  `pickle.loads`, such as running out of memory.
* The model itself (`models/qwen3.py` is not part of the repository), and with
  it the names of parameters that `load_model` looks up.
* `scripts/explore_attention.py`, an experiment the engine does not use.
* A `kvcache_block_size` other than `Sequence.block_size`: the models have one
  `BlockSize`.
* Nothing is assumed about the length of prompts in the models; a prompt that
  fits neither the pool nor the budget makes `schedule` fail its assertion when
  nothing else runs (`RequestsFit` of `EngineProofs` excludes it).
* `max_tokens = 0`, which `postprocess` never recognises as reached.
