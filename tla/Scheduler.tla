----------------------------- MODULE Scheduler ------------------------------
(***************************************************************************)
(* The scheduler of prism_infer/engine/scheduler.py on top of the block    *)
(* manager, driven by the loop of LLMEngine.step: schedule, run the batch, *)
(* postprocess.  Requests may be added between any two steps.              *)
(*                                                                         *)
(* `phase' is the place the single thread of the engine has reached; every *)
(* loop of the code is one iteration per step.  While a method of the      *)
(* block manager executes (op # "idle") the scheduler waits for it to      *)
(* return, and does what follows the call in the step of its last          *)
(* iteration.                                                              *)
(***************************************************************************)
EXTENDS BlockManager

CONSTANTS
  MaxNumSeqs,             \* max_num_seqs
  MaxNumBatchedTokens,    \* max_num_batched_tokens
  EnableChunkedPrefill,   \* enable_chunked_prefill
  MaxChunkSize,           \* max_chunk_size
  Eos                     \* the end-of-sequence token; not in Token: ignore_eos

ASSUME SchedulerAssumption ==
  /\ MaxNumSeqs \in Nat \ {0}
  /\ MaxNumBatchedTokens \in Nat \ {0}
  /\ EnableChunkedPrefill \in BOOLEAN
  /\ MaxChunkSize \in Nat \ {0}
  /\ EnableChunkedPrefill => \A p \in Prompts : 0 .. Len(p) \subseteq ChunkEnds

VARIABLES
  waiting, running, swapped,   \* the queues
  num_computed_tokens,         \* prompt tokens of a sequence computed so far
  phase,
  scheduled_seqs, num_batched_tokens,   \* local to schedule
  is_prefill,                  \* what schedule returned beside scheduled_seqs
  todo,                        \* rest of the list a for loop goes through
  seq                          \* the sequence an iteration works on

queueVars == <<waiting, running, swapped>>
batchVars == <<scheduled_seqs, num_batched_tokens, is_prefill>>
schedulerVars == <<queueVars, num_computed_tokens, phase, batchVars, todo, seq>>

-----------------------------------------------------------------------------
(* Sequence properties and the client side of the engine.                  *)

is_prefill_finished(s) == num_computed_tokens[s] >= num_prompt_tokens[s]

remaining_prefill_tokens(s) ==
  IF is_prefill_finished(s) THEN 0 ELSE num_prompt_tokens[s] - num_computed_tokens[s]

Least(m, n) == IF m <= n THEN m ELSE n

is_finished == waiting = <<>> /\ running = <<>> /\ swapped = <<>>

\* The engine is between two steps.
BetweenSteps == phase = "idle" /\ Idle

\* add_request and Scheduler.add
Add(s) ==
  /\ BetweenSteps
  /\ NewSequence(s)
  /\ waiting' = Append(waiting, s)
  /\ UNCHANGED <<running, swapped, num_computed_tokens, phase, batchVars, todo, seq>>

-----------------------------------------------------------------------------
(* schedule: the prefill branch.                                           *)

Goto(p) == phase' = p /\ todo' = <<>>

Schedule ==
  /\ BetweenSteps
  /\ ~is_finished
  /\ scheduled_seqs' = <<>>
  /\ num_batched_tokens' = 0
  /\ \/ /\ EnableChunkedPrefill
        /\ phase' = "resume"
        /\ todo' = running
     \/ /\ ~EnableChunkedPrefill
        /\ Goto("admit")
  /\ UNCHANGED <<vars, queueVars, num_computed_tokens, is_prefill, seq>>

\* What the sequence may contribute to the batch with n tokens left to compute.
Chunk(n) == Least(Least(n, MaxChunkSize), MaxNumBatchedTokens - num_batched_tokens)

\* One iteration of the loop over the sequences whose prefill is under way.
ResumePrefill ==
  /\ phase = "resume"
  /\ todo # <<>>
  /\ LET s == Head(todo)
         chunk == Chunk(remaining_prefill_tokens(s))
     IN \/ /\ is_prefill_finished(s)
           /\ todo' = Tail(todo)
           /\ UNCHANGED <<phase, scheduled_seqs, num_batched_tokens>>
        \/ /\ ~is_prefill_finished(s)
           /\ chunk > 0
           /\ num_batched_tokens' = num_batched_tokens + chunk
           /\ scheduled_seqs' = Append(scheduled_seqs, s)
           /\ todo' = Tail(todo)
           /\ UNCHANGED phase
        \/ /\ ~is_prefill_finished(s)
           /\ chunk <= 0
           /\ Goto("admit")
           /\ UNCHANGED <<scheduled_seqs, num_batched_tokens>>
  /\ UNCHANGED <<vars, queueVars, num_computed_tokens, is_prefill, seq>>

ResumeEnd ==
  /\ phase = "resume"
  /\ todo = <<>>
  /\ Goto("admit")
  /\ UNCHANGED <<vars, queueVars, num_computed_tokens, batchVars, seq>>

WithinBudgetAlways(s) == TRUE   \* fault: no budget

\* Fault: a sequence that needs the whole budget is refused.
WithinBudgetStrict(s) ==
  IF EnableChunkedPrefill
  THEN Chunk(SeqLen(s) - num_cached_tokens[s]) > 0
  ELSE num_batched_tokens + SeqLen(s) < MaxNumBatchedTokens

\* The token budget admits sequence s.
WithinBudget(s) ==
  IF EnableChunkedPrefill
  THEN Chunk(SeqLen(s) - num_cached_tokens[s]) > 0
  ELSE num_batched_tokens + SeqLen(s) <= MaxNumBatchedTokens

Admissible ==
  /\ waiting # <<>>
  /\ Len(scheduled_seqs) < MaxNumSeqs
  /\ can_allocate(Head(waiting))
  /\ WithinBudget(Head(waiting))

\* The head of waiting is given its blocks; with chunks, the budget is charged
\* before the prefix cache is consulted.
Admit ==
  /\ phase = "admit"
  /\ Admissible
  /\ BeginAllocate(Head(waiting))
  /\ num_batched_tokens' =
       IF EnableChunkedPrefill
       THEN num_batched_tokens + Chunk(SeqLen(cur') - num_cached_tokens[cur'])
       ELSE num_batched_tokens
  /\ UNCHANGED <<queueVars, num_computed_tokens, phase, scheduled_seqs, is_prefill,
                 todo, seq>>

\* Fault: cached and uncached tokens are swapped.
ChargeCached(s) ==
  IF EnableChunkedPrefill THEN 0 ELSE num_cached_tokens'[s] - SeqLen(s)

\* What an admitted sequence adds to the budget; with chunks, Admit did it.
Charge(s) ==
  IF EnableChunkedPrefill THEN 0 ELSE SeqLen(s) - num_cached_tokens'[s]

AdmitStep ==
  /\ AllocateStep
  /\ \/ /\ op' # "idle"
        /\ UNCHANGED <<queueVars, scheduled_seqs, num_batched_tokens>>
     \/ /\ op' = "idle"
        /\ waiting' = Tail(waiting)
        /\ running' = Append(running, cur)
        /\ scheduled_seqs' = Append(scheduled_seqs, cur)
        /\ num_batched_tokens' = num_batched_tokens + Charge(cur)
        /\ UNCHANGED swapped
  /\ UNCHANGED <<num_computed_tokens, phase, is_prefill, todo, seq>>

\* A prefill batch is returned if there is one.
AdmitEnd ==
  /\ phase = "admit"
  /\ Idle
  /\ ~Admissible
  /\ \/ /\ scheduled_seqs # <<>>
        /\ is_prefill' = TRUE
        /\ Goto("run")
     \/ /\ scheduled_seqs = <<>>
        /\ Goto("swap_in")
        /\ UNCHANGED is_prefill
  /\ UNCHANGED <<vars, queueVars, num_computed_tokens, scheduled_seqs,
                 num_batched_tokens, seq>>

-----------------------------------------------------------------------------
(* schedule: the decode branch.                                            *)

SwapIn ==
  /\ phase = "swap_in"
  /\ swapped # <<>>
  /\ BeginSwapIn(Head(swapped))
  /\ UNCHANGED schedulerVars

SwapInIteration ==
  /\ SwapInStep
  /\ \/ /\ op' # "idle"
        /\ UNCHANGED queueVars
     \/ /\ op' = "idle"
        /\ swapped' = Tail(swapped)
        /\ running' = Append(running, cur)
        /\ UNCHANGED waiting
  /\ UNCHANGED <<num_computed_tokens, phase, batchVars, todo, seq>>

SwapInEnd ==
  /\ phase = "swap_in"
  /\ Idle
  /\ swapped # <<>> => ~can_swap_in(Head(swapped))
  /\ Goto("decode")
  /\ UNCHANGED <<vars, queueVars, num_computed_tokens, batchVars, seq>>

\* seq = self.running.popleft()
PickDecode ==
  /\ phase = "decode"
  /\ Idle
  /\ seq = NoRequest
  /\ running # <<>>
  /\ Len(scheduled_seqs) < MaxNumSeqs
  /\ seq' = Head(running)
  /\ running' = Tail(running)
  /\ UNCHANGED <<vars, waiting, swapped, num_computed_tokens, phase, batchVars, todo>>

Deciding == phase = "decode" /\ Idle /\ seq # NoRequest

\* No block for seq: the tail of running is evicted, or seq when it is alone.
Evict ==
  /\ Deciding
  /\ ~can_append(seq)
  /\ \/ /\ running # <<>>
        /\ Preempt(Last(running))
        /\ running' = Front(running)
        /\ UNCHANGED seq
     \/ /\ running = <<>>
        /\ Preempt(seq)
        /\ seq' = NoRequest
        /\ UNCHANGED running
  /\ UNCHANGED <<waiting, swapped, num_computed_tokens, phase, batchVars, todo>>

EvictSwapStep ==
  /\ SwapOutStep
  /\ swapped' = IF op' = "idle" THEN Append(swapped, cur) ELSE swapped
  /\ UNCHANGED <<waiting, running, num_computed_tokens, phase, batchVars, todo, seq>>

RequeueLost(s) == waiting   \* fault: appendleft is forgotten

Requeue(s) == <<s>> \o waiting

EvictDropStep ==
  /\ phase = "decode"
  /\ DeallocateStep
  /\ waiting' = IF op' = "idle" THEN Requeue(cur) ELSE waiting
  /\ UNCHANGED <<running, swapped, num_computed_tokens, phase, batchVars, todo, seq>>

Decode ==
  /\ Deciding
  /\ CopyOnWrite(seq)
  /\ UNCHANGED schedulerVars

DecodeStep ==
  /\ AppendStep
  /\ \/ /\ op' = "idle"
        /\ scheduled_seqs' = Append(scheduled_seqs, cur)
        /\ seq' = NoRequest
     \/ /\ op' # "idle"
        /\ UNCHANGED <<scheduled_seqs, seq>>
  /\ UNCHANGED <<queueVars, num_computed_tokens, phase, num_batched_tokens,
                 is_prefill, todo>>

\* Fault: stops one sequence short of the limit.
DecodeLoopDoneEarly ==
  /\ phase = "decode"
  /\ Idle
  /\ seq = NoRequest
  /\ running = <<>> \/ Len(scheduled_seqs) + 1 = MaxNumSeqs

DecodeLoopDone ==
  /\ phase = "decode"
  /\ Idle
  /\ seq = NoRequest
  /\ running = <<>> \/ Len(scheduled_seqs) = MaxNumSeqs

PutBackNothing == running   \* fault: extendleft is forgotten

\* The sequences of the batch go back to the head of running.
PutBack == scheduled_seqs \o running

DecodeEnd ==
  /\ DecodeLoopDone
  /\ scheduled_seqs # <<>>
  /\ running' = PutBack
  /\ is_prefill' = FALSE
  /\ Goto("run")
  /\ UNCHANGED <<vars, waiting, swapped, num_computed_tokens, scheduled_seqs,
                 num_batched_tokens, seq>>

\* assert scheduled_seqs
NothingScheduled ==
  /\ DecodeLoopDone
  /\ scheduled_seqs = <<>>
  /\ phase' = "nothing scheduled"
  /\ UNCHANGED <<vars, queueVars, num_computed_tokens, batchVars, todo, seq>>

-----------------------------------------------------------------------------
(* ModelRunner.run, as far as the scheduler depends on it.                 *)

Batch == Range(scheduled_seqs)

ChunkedBatch == is_prefill /\ EnableChunkedPrefill

\* Fault: the whole rest of the prompt in one chunk.
RunnerChunkWhole(s) == num_prompt_tokens[s] - num_computed_tokens[s]

\* The runner's own idea of a chunk, which knows no token budget.
RunnerChunk(s) == Least(num_prompt_tokens[s] - num_computed_tokens[s], MaxChunkSize)

\* The first token of the sequence that the batch computes.
QueryStart(s) == IF ChunkedBatch THEN num_computed_tokens[s] ELSE num_cached_tokens[s]

\* How many tokens of the sequence the batch computes.
QueryLen(s) ==
  IF ~is_prefill THEN 1
  ELSE IF ChunkedBatch THEN RunnerChunk(s)
  ELSE SeqLen(s) - num_cached_tokens[s]

\* prepare_prefill maps slots from the start of the block where the queries
\* begin, and store_kvcache asserts one slot per query.
SlotsMatchQueries ==
  is_prefill => \A s \in Batch : QueryStart(s) % BlockSize = 0

Run ==
  /\ phase = "run"
  /\ Idle
  /\ \/ /\ ~SlotsMatchQueries
        /\ Goto("slots differ")
     \/ /\ SlotsMatchQueries
        /\ \A s \in Batch : QueryLen(s) = 0
        /\ Goto("empty batch")
     \/ /\ SlotsMatchQueries
        /\ \E s \in Batch : QueryLen(s) > 0
        /\ phase' = IF ChunkedBatch THEN "record" ELSE "postprocess"
        /\ todo' = scheduled_seqs
  /\ UNCHANGED <<vars, queueVars, num_computed_tokens, batchVars, seq>>

\* Fault: the chunk is counted twice.
RecordTwice ==
  /\ phase = "record"
  /\ todo # <<>>
  /\ LET s == Head(todo)
         computed == num_computed_tokens[s] + 2 * RunnerChunk(s)
     IN /\ RecordComputed(s, computed)
        /\ num_computed_tokens' = [num_computed_tokens EXCEPT ![s] = computed]
  /\ todo' = Tail(todo)
  /\ UNCHANGED <<queueVars, phase, batchVars, seq>>

\* After a chunked prefill batch, run counts the chunk of each sequence.
Record ==
  /\ phase = "record"
  /\ todo # <<>>
  /\ LET s == Head(todo)
         computed == num_computed_tokens[s] + RunnerChunk(s)
     IN /\ RecordComputed(s, computed)
        /\ num_computed_tokens' = [num_computed_tokens EXCEPT ![s] = computed]
  /\ todo' = Tail(todo)
  /\ UNCHANGED <<queueVars, phase, batchVars, seq>>

RecordEnd ==
  /\ phase = "record"
  /\ todo = <<>>
  /\ phase' = "postprocess"
  /\ todo' = scheduled_seqs
  /\ UNCHANGED <<vars, queueVars, num_computed_tokens, batchVars, seq>>

-----------------------------------------------------------------------------
(* postprocess                                                             *)

Postprocessing == phase = "postprocess" /\ Idle

\* No token is sampled after a chunk that does not end the prompt.
NoToken(s) == ChunkedBatch /\ ~is_prefill_finished(s)

PostSkip ==
  /\ Postprocessing
  /\ seq = NoRequest
  /\ todo # <<>>
  /\ NoToken(Head(todo))
  /\ todo' = Tail(todo)
  /\ UNCHANGED <<vars, queueVars, num_computed_tokens, phase, batchVars, seq>>

PostAppend(t) ==
  /\ Postprocessing
  /\ seq = NoRequest
  /\ todo # <<>>
  /\ ~NoToken(Head(todo))
  /\ append_token(Head(todo), t)
  /\ seq' = Head(todo)
  /\ todo' = Tail(todo)
  /\ UNCHANGED <<queueVars, num_computed_tokens, phase, batchVars>>

Ends(s) == Last(token_ids[s]) = Eos \/ Finished(s)

PostContinue ==
  /\ Postprocessing
  /\ seq # NoRequest
  /\ ~Ends(seq)
  /\ seq' = NoRequest
  /\ UNCHANGED <<vars, queueVars, num_computed_tokens, phase, batchVars, todo>>

PostFinish ==
  /\ Postprocessing
  /\ seq # NoRequest
  /\ Ends(seq)
  /\ BeginFinish(seq)
  /\ UNCHANGED schedulerVars

UnlistNothing(s) == running   \* fault: running.remove is forgotten

Unlist(s) == RemoveFirst(running, s)

PostFinishStep ==
  /\ phase = "postprocess"
  /\ DeallocateStep
  /\ \/ /\ op' = "idle"
        /\ running' = Unlist(seq)
        /\ seq' = NoRequest
     \/ /\ op' # "idle"
        /\ UNCHANGED <<running, seq>>
  /\ UNCHANGED <<waiting, swapped, num_computed_tokens, phase, batchVars, todo>>

PostEnd ==
  /\ Postprocessing
  /\ seq = NoRequest
  /\ todo = <<>>
  /\ Goto("idle")
  /\ scheduled_seqs' = <<>>
  /\ num_batched_tokens' = 0
  /\ is_prefill' = FALSE
  /\ UNCHANGED <<vars, queueVars, num_computed_tokens, seq>>

-----------------------------------------------------------------------------
allVars == <<vars, schedulerVars>>

Failures == {"nothing scheduled", "slots differ", "empty batch"}

Crashed == error # "none" \/ phase \in Failures

SchedulerInit ==
  /\ Init
  /\ waiting = <<>>
  /\ running = <<>>
  /\ swapped = <<>>
  /\ num_computed_tokens = [s \in Request |-> 0]
  /\ phase = "idle"
  /\ scheduled_seqs = <<>>
  /\ num_batched_tokens = 0
  /\ is_prefill = FALSE
  /\ todo = <<>>
  /\ seq = NoRequest

\* Everything one call of LLMEngine.step does.
EngineStep ==
  \/ Schedule \/ ResumePrefill \/ ResumeEnd \/ Admit \/ AdmitStep \/ AdmitEnd
  \/ SwapIn \/ SwapInIteration \/ SwapInEnd
  \/ PickDecode \/ Evict \/ EvictSwapStep \/ EvictDropStep
  \/ Decode \/ DecodeStep \/ DecodeEnd \/ NothingScheduled
  \/ Run \/ Record \/ RecordEnd
  \/ PostSkip \/ (\E t \in Token : PostAppend(t)) \/ PostContinue
  \/ PostFinish \/ PostFinishStep \/ PostEnd

\* After an exception, or when the queues are empty for good, nothing happens.
AllDone ==
  /\ \/ Crashed
     \/ phase = "idle" /\ is_finished /\ \A s \in Request : status[s] # "absent"
  /\ UNCHANGED allVars

SchedulerNext ==
  \/ \E s \in Request : Add(s)
  \/ EngineStep
  \/ AllDone

SchedulerSpec == SchedulerInit /\ [][SchedulerNext]_allVars

-----------------------------------------------------------------------------
(* Properties.                                                             *)

Phases == {"idle", "resume", "admit", "swap_in", "decode", "run", "record",
           "postprocess"}

\* The queues and the local variables of schedule and postprocess hold requests.
SchedulerTypeOK ==
  /\ waiting \in Seq(Request)
  /\ running \in Seq(Request)
  /\ swapped \in Seq(Request)
  /\ num_computed_tokens \in [Request -> Nat]
  /\ phase \in Phases \cup Failures
  /\ scheduled_seqs \in Seq(Request)
  /\ num_batched_tokens \in Nat
  /\ is_prefill \in BOOLEAN
  /\ todo \in Seq(Request)
  /\ seq \in Request \cup {NoRequest}

(***************************************************************************)
(* The scheduler uses the block manager the way it may be used: every      *)
(* step of schedule, preempt and postprocess is a step that the client of *)
(* BlockManager may take, so what is true of BlockManager is true here.    *)
(***************************************************************************)
ImplementsBlockManager == Spec

HoldsOnly(queue, s) == IsInjective(queue) /\ Range(queue) = s

WithStatus(st) == {s \in Request : status[s] = st}

\* While the decode loop runs, the sequences it took from running.
TakenFromRunning ==
  IF phase # "decode" THEN <<>>
  ELSE IF seq = NoRequest THEN scheduled_seqs ELSE Append(scheduled_seqs, seq)

(***************************************************************************)
(* A sequence is in the queue its status names, once, and in no other: the *)
(* moves of schedule, preempt and postprocess neither lose nor duplicate a *)
(* request.                                                                *)
(***************************************************************************)
QueuesMatchStatus ==
  op = "idle" =>
    /\ HoldsOnly(waiting, WithStatus("waiting"))
    /\ HoldsOnly(TakenFromRunning \o running, WithStatus("running"))
    /\ HoldsOnly(swapped, WithStatus("swapped"))

(***************************************************************************)
(* The batch handed to the model runner has each sequence once, all of     *)
(* them still running with a KV slot for every token (no later eviction of *)
(* the same step took them), and a decode batch has only sequences whose   *)
(* prompt has been computed.                                               *)
(***************************************************************************)
BatchReady ==
  phase = "run" =>
    /\ scheduled_seqs # <<>>
    /\ IsInjective(scheduled_seqs)
    /\ Batch \subseteq Range(running)
    /\ \A s \in Batch : placed[s]
    /\ EnableChunkedPrefill /\ ~is_prefill => \A s \in Batch : is_prefill_finished(s)

TokensInBatch == MapThenSumSet(QueryLen, Batch)

\* What run computes is what schedule counted, or less, unless schedule cut the
\* last chunk to the budget: run computes that chunk whole.
TokensCounted ==
  \/ TokensInBatch <= num_batched_tokens
  \/ /\ EnableChunkedPrefill
     /\ num_batched_tokens = MaxNumBatchedTokens
     /\ TokensInBatch < MaxNumBatchedTokens + MaxChunkSize

(***************************************************************************)
(* schedule's limits: at most max_num_seqs sequences, though the loop that *)
(* resumes prefills does not look at max_num_seqs, and                     *)
(* max_num_batched_tokens tokens in what it counts.  Run computes the      *)
(* chunks anew without the budget, so that with chunked prefill a batch    *)
(* may exceed the limit of config.py, by less than one chunk and only when *)
(* schedule used up the budget.                                            *)
(***************************************************************************)
CountedWithinLimits ==
  phase = "run" =>
    /\ Len(scheduled_seqs) <= MaxNumSeqs
    /\ num_batched_tokens <= MaxNumBatchedTokens
    /\ is_prefill => TokensCounted

(***************************************************************************)
(* config.py's limit, where it is kept: without chunked prefill a batch    *)
(* processes at most max_num_batched_tokens tokens, whatever the prefix    *)
(* cache finds between the test of the budget and the charge for it.  With *)
(* chunked prefill it may process more: see CountedWithinLimits.           *)
(***************************************************************************)
TokensWithinLimit ==
  ~EnableChunkedPrefill /\ phase = "run" /\ is_prefill =>
    TokensInBatch <= MaxNumBatchedTokens

(***************************************************************************)
(* A decode batch leaves out a running sequence only for max_num_seqs: what *)
(* the loop evicts is no longer running, and what it takes it schedules.    *)
(***************************************************************************)
DecodeTakesAll ==
  phase = "run" /\ ~is_prefill =>
    Len(scheduled_seqs) = Least(MaxNumSeqs, Len(running))

\* store_kvcache's assertion that there is one slot per token.
SlotsAgree == phase # "slots differ"

(***************************************************************************)
(* Without chunked prefill, for requests that fit the pool and the budget, *)
(* no assertion of a step fails: schedule finds something to run, however  *)
(* the sequences are evicted, and store_kvcache has one slot per token.    *)
(***************************************************************************)
StepAssertionsHold == phase \notin {"nothing scheduled", "slots differ"}

(***************************************************************************)
(* When the last request is finished all GPU and CPU blocks are free: no   *)
(* path through eviction, swapping and completion keeps one.               *)
(***************************************************************************)
NothingLeaks ==
  phase = "idle" /\ is_finished =>
    Len(free_block_ids) = NumKvBlocks /\ Len(cpu_free_block_ids) = NumCpuBlocks

(***************************************************************************)
(* generate returns: every request that was added is finished in the end,  *)
(* however often it is evicted, unless an exception ends the engine.       *)
(***************************************************************************)
EveryRequestEnds ==
  \A s \in Request :
    status[s] = "waiting" ~> (status[s] = "finished" \/ Crashed)

=============================================================================
