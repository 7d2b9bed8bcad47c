-------------------------- MODULE SchedulerProofs ---------------------------
(***************************************************************************)
(* The scheduler uses the block manager the way it may be used, keeps each *)
(* request in the queue its status names, hands over batches that can run  *)
(* and stays within its limits, for every set of requests, every size of   *)
(* the pools and every setting of the scheduler.                           *)
(***************************************************************************)
EXTENDS LLMEngine, BlockManagerProofs

-----------------------------------------------------------------------------
(* The scheduler is a client of the block manager.                         *)

(***************************************************************************)
(* The part of the types that does not depend on what the block manager    *)
(* counts.                                                                 *)
(***************************************************************************)
QueueType ==
  /\ waiting \in Seq(Request)
  /\ running \in Seq(Request)
  /\ swapped \in Seq(Request)
  /\ num_computed_tokens \in [Request -> Nat]
  /\ phase \in Phases \cup Failures
  /\ scheduled_seqs \in Seq(Request)
  /\ num_batched_tokens \in Int
  /\ is_prefill \in BOOLEAN
  /\ todo \in Seq(Request)
  /\ seq \in Request \cup {NoRequest}
  /\ phase = "record" => EnableChunkedPrefill

\* A sequence has the prompt it was created with.
PromptKept ==
  \A s \in Request : status[s] # "absent" => \E p \in Prompts : num_prompt_tokens[s] = Len(p)

ClientInv == TypeInv /\ QueueType /\ PromptKept

(***************************************************************************)
(* A chunk never goes past the end of the prompt.                          *)
(***************************************************************************)
LEMMA ChunkWithinPrompt ==
  ASSUME QueueType, TypeOK, NEW s \in Request
  PROVE  num_computed_tokens[s] + RunnerChunk(s) \in 0 .. num_prompt_tokens[s]
<1>1. num_computed_tokens[s] \in Nat /\ num_prompt_tokens[s] \in Nat
  BY DEF QueueType, TypeOK
<1>2. MaxChunkSize \in Nat \ {0}
  BY SchedulerAssumption
<1> QED
  BY <1>1, <1>2 DEF RunnerChunk, Least

(***************************************************************************)
(* Every step of the scheduler is a step the client of the block manager   *)
(* may take, or leaves the block manager alone.                            *)
(***************************************************************************)
LEMMA ClientSteps ==
  ASSUME ClientInv, [SchedulerNext]_allVars
  PROVE  [Next]_vars
<1>1. QueueType /\ PromptKept /\ TypeOK
  BY DEF ClientInv, TypeInv
<1>2. ASSUME NEW s \in Request, Add(s) PROVE Next
  BY <1>2 DEF Add, Next
<1>3. CASE Admit
  <2>1. Head(waiting) \in Request
    BY <1>1, <1>3, EndsType DEF QueueType, Admit, Admissible
  <2> QED
    BY <1>3, <2>1 DEF Admit, Next
<1>4. CASE SwapIn
  <2>1. Head(swapped) \in Request
    BY <1>1, <1>4, EndsType DEF QueueType, SwapIn
  <2> QED
    BY <1>4, <2>1 DEF SwapIn, Next
<1>5. CASE Evict
  <2>1. seq \in Request /\ (running # <<>> => Last(running) \in Request)
    BY <1>1, <1>5, EndsType DEF QueueType, Evict, Deciding
  <2> QED
    BY <1>5, <2>1 DEF Evict, Next
<1>6. CASE Decode \/ PostFinish
  <2>1. seq \in Request
    BY <1>1, <1>6 DEF QueueType, Decode, Deciding, PostFinish
  <2> QED
    BY <1>6, <2>1 DEF Decode, PostFinish, Next
<1>7. CASE Record
  <2>1. PICK s \in Request : s = Head(todo)
    BY <1>1, <1>7, EndsType DEF QueueType, Record
  <2>2. PICK n : n = num_computed_tokens[s] + RunnerChunk(s)
    OBVIOUS
  <2>3. RecordComputed(s, n)
    BY <1>7, <2>1, <2>2 DEF Record
  <2>4. n \in ChunkEnds
    <3>1. PICK p \in Prompts : num_prompt_tokens[s] = Len(p)
      BY <1>1, <2>3 DEF PromptKept, RecordComputed
    <3>2. EnableChunkedPrefill
      BY <1>1, <1>7 DEF QueueType, Record
    <3> QED
      BY <1>1, <2>2, <3>1, <3>2, ChunkWithinPrompt, SchedulerAssumption
  <2> QED
    BY <2>3, <2>4 DEF Next
<1>8. ASSUME NEW t \in Token, PostAppend(t) PROVE Next
  <2>1. Head(todo) \in Request
    BY <1>1, <1>8, EndsType DEF QueueType, PostAppend
  <2> QED
    BY <1>8, <2>1 DEF PostAppend, Next
<1>9. CASE AdmitStep \/ SwapInIteration \/ EvictSwapStep \/ EvictDropStep \/ DecodeStep
           \/ PostFinishStep
  BY <1>9 DEF AdmitStep, SwapInIteration, EvictSwapStep, EvictDropStep, DecodeStep,
              PostFinishStep, Next
<1>10. CASE Schedule \/ ResumePrefill \/ ResumeEnd \/ AdmitEnd \/ SwapInEnd \/ PickDecode
            \/ DecodeEnd \/ NothingScheduled \/ Run \/ RecordEnd \/ PostSkip
            \/ PostContinue \/ PostEnd \/ AllDone \/ UNCHANGED allVars
  BY <1>10 DEF Schedule, ResumePrefill, ResumeEnd, AdmitEnd, SwapInEnd, PickDecode,
               DecodeEnd, NothingScheduled, Run, RecordEnd, PostSkip, PostContinue, PostEnd,
               AllDone, allVars
<1> QED
  BY <1>2, <1>3, <1>4, <1>5, <1>6, <1>7, <1>8, <1>9, <1>10
  DEF SchedulerNext, EngineStep

LEMMA PromptStep ==
  ASSUME TypeInv, PromptKept, [Next]_vars
  PROVE  PromptKept'
<1>1. ASSUME NEW s \in Request, NewSequence(s) PROVE PromptKept'
  BY <1>1 DEF NewSequence, PromptKept, TypeInv, TypeOK
<1>2. ASSUME ~ \E s \in Request : NewSequence(s)
      PROVE  /\ num_prompt_tokens' = num_prompt_tokens
             /\ \A s \in Request : status[s] = "absent" => status'[s] = "absent"
  <2>1. ASSUME NEW s \in Request,
               \/ \E t \in Token : append_token(s, t)
               \/ \E n \in ChunkEnds : RecordComputed(s, n)
               \/ BeginAllocate(s) \/ BeginFinish(s) \/ Preempt(s) \/ BeginSwapIn(s)
               \/ CopyOnWrite(s)
        PROVE  /\ num_prompt_tokens' = num_prompt_tokens
               /\ \A u \in Request : status[u] = "absent" => status'[u] = "absent"
    BY <2>1 DEF append_token, RecordComputed, BeginAllocate, BeginFinish, Preempt,
                BeginSwapIn, CopyOnWrite, seqVars, TypeInv, TypeOK
  <2>2. CASE AllocateStep \/ SwapInStep \/ SwapOutStep
    <3>1. op \in {"allocate", "swap_in", "swap_out"} /\ cur \in Request
      BY <2>2, BlockManagerAssumption
      DEF AllocateStep, AllocateMiss, AllocateShared, AllocateRevived, SwapInStep,
          SwapOutStep, TypeInv, TypeOK
    <3>2. status[cur] # "absent"
      BY <3>1 DEF TypeInv, MethodHasRoom
    <3>3. /\ num_prompt_tokens' = num_prompt_tokens
          /\ \/ UNCHANGED status
             \/ status' = [status EXCEPT ![cur] = "running"]
             \/ status' = [status EXCEPT ![cur] = "swapped"]
      BY <2>2 DEF AllocateStep, AllocateMiss, AllocateShared, AllocateRevived, AddToTable,
                  SwapInStep, SwapOutStep
    <3> QED
      BY <3>1, <3>2, <3>3 DEF TypeInv, TypeOK
  <2>3. CASE DeallocateStep \/ AppendStep \/ Stopped \/ UNCHANGED vars
    BY <2>3 DEF DeallocateStep, AppendStep, AppendNewBlock, AppendFillsBlock, AppendInside,
                AppendRaises, AppendDone, Raise, Stopped, vars, seqVars
  <2> QED
    BY <1>2, <2>1, <2>2, <2>3 DEF Next
<1> QED
  BY <1>1, <1>2 DEF PromptKept

LEMMA PromptInit ==
  ASSUME Init
  PROVE  PromptKept
BY DEF Init, PromptKept

LEMMA QueueTypeStep ==
  ASSUME ClientInv, TypeInv', [SchedulerNext]_allVars
  PROVE  QueueType'
<1>1. /\ waiting \in Seq(Request) /\ running \in Seq(Request) /\ swapped \in Seq(Request)
      /\ scheduled_seqs \in Seq(Request) /\ todo \in Seq(Request)
      /\ num_computed_tokens \in [Request -> Nat]
      /\ phase \in Phases \cup Failures /\ num_batched_tokens \in Int /\ is_prefill \in BOOLEAN
      /\ seq \in Request \cup {NoRequest}
      /\ phase = "record" => EnableChunkedPrefill
  BY DEF ClientInv, QueueType
<1>2. <<>> \in Seq(Request)
  BY EmptySeq
<1>3. \A q \in Seq(Request) : q # <<>> => Head(q) \in Request /\ Tail(q) \in Seq(Request)
                                          /\ Last(q) \in Request /\ Front(q) \in Seq(Request)
  BY EndsType
<1>4. \A q \in Seq(Request), s \in Request : Append(q, s) \in Seq(Request)
  OBVIOUS
<1>5. op # "idle" => cur \in Request
  BY DEF ClientInv, TypeInv, TypeOK
<1>6. MaxNumBatchedTokens \in Nat /\ MaxChunkSize \in Nat
  BY SchedulerAssumption
<1>7. \A n \in Int : Chunk(n) \in Int
  BY <1>1, <1>6 DEF Chunk, Least
<1>8. \A s \in Request : /\ remaining_prefill_tokens(s) \in Int
                         /\ SeqLen(s) \in Int
                         /\ num_cached_tokens[s] \in Int /\ num_cached_tokens'[s] \in Int
  <2> SUFFICES ASSUME NEW s \in Request
               PROVE  /\ remaining_prefill_tokens(s) \in Int
                      /\ SeqLen(s) \in Int
                      /\ num_cached_tokens[s] \in Int /\ num_cached_tokens'[s] \in Int
    OBVIOUS
  <2>1. num_prompt_tokens[s] \in Nat /\ num_computed_tokens[s] \in Nat
    BY <1>1 DEF ClientInv, TypeInv, TypeOK
  <2>2. num_cached_tokens[s] \in Int /\ num_cached_tokens'[s] \in Int
    BY DEF ClientInv, TypeInv, TypeOK
  <2>3. SeqLen(s) \in Int
    BY SettledWithinLength DEF ClientInv, TypeInv
  <2> QED
    BY <2>1, <2>2, <2>3 DEF remaining_prefill_tokens
<1>9. ASSUME NEW s \in Request, Add(s) PROVE QueueType'
  BY <1>1, <1>4, <1>9 DEF Add, batchVars, QueueType
<1>10. CASE Schedule
  <2>1. /\ UNCHANGED <<queueVars, num_computed_tokens, is_prefill, seq>>
        /\ scheduled_seqs' = <<>> /\ num_batched_tokens' = 0
        /\ phase' \in {"resume", "admit"} /\ todo' \in Seq(Request)
    BY <1>1, <1>2, <1>10 DEF Schedule, Goto
  <2> QED
    BY <1>1, <1>2, <2>1 DEF queueVars, QueueType, Phases
<1>11. CASE ResumePrefill
  <2>1. /\ UNCHANGED <<queueVars, num_computed_tokens, is_prefill, seq>>
        /\ phase' \in {"resume", "admit"}
    BY <1>11 DEF ResumePrefill, Goto
  <2>2. Head(todo) \in Request /\ Tail(todo) \in Seq(Request)
    BY <1>1, <1>3, <1>11 DEF ResumePrefill
  <2>3. todo' \in Seq(Request) /\ scheduled_seqs' \in Seq(Request)
    BY <1>1, <1>2, <1>4, <1>11, <2>2 DEF ResumePrefill, Goto
  <2>4. Chunk(remaining_prefill_tokens(Head(todo))) \in Int
    BY <1>7, <1>8, <2>2
  <2>5. num_batched_tokens' \in Int
    BY <1>1, <1>11, <2>4 DEF ResumePrefill
  <2> QED
    BY <1>1, <2>1, <2>3, <2>5 DEF queueVars, QueueType, Phases
<1>12. CASE ResumeEnd \/ SwapInEnd \/ NothingScheduled
  BY <1>1, <1>2, <1>12
  DEF ResumeEnd, SwapInEnd, NothingScheduled, queueVars, batchVars, Goto, QueueType, Phases,
      Failures
<1>13. CASE Admit
  <2>1. cur' \in Request
    BY <1>1, <1>3, <1>13 DEF Admit, Admissible, BeginAllocate, Call
  <2>2. SeqLen(cur') - num_cached_tokens[cur'] \in Int
    BY <1>8, <2>1
  <2>3. num_batched_tokens' \in Int
    BY <1>1, <1>7, <1>13, <2>2 DEF Admit
  <2> QED
    BY <1>1, <1>13, <2>3 DEF Admit, queueVars, QueueType
<1>14. CASE AdmitStep
  <2>1. cur \in Request
    BY <1>5, <1>14 DEF AdmitStep, AllocateStep, AllocateMiss, AllocateShared, AllocateRevived
  <2>2. num_batched_tokens' \in Int
    <3>1. Charge(cur) \in Int
      BY <1>8, <2>1 DEF Charge
    <3> QED
      BY <1>1, <1>14, <3>1 DEF AdmitStep
  <2>3. /\ waiting' \in Seq(Request) /\ running' \in Seq(Request)
        /\ swapped' \in Seq(Request) /\ scheduled_seqs' \in Seq(Request)
    <3>1. CASE op' # "idle"
      BY <1>1, <1>14, <3>1 DEF AdmitStep, queueVars
    <3>2. CASE waiting' = Tail(waiting)
      <4>1. Tail(waiting) \in Seq(Request)
        <5>1. CASE waiting = <<>>
          BY <1>2, <5>1
        <5> QED
          BY <1>1, <1>3, <5>1
      <4> QED
        BY <1>1, <1>4, <1>14, <2>1, <3>2, <4>1 DEF AdmitStep, queueVars
    <3> QED
      BY <1>14, <3>1, <3>2 DEF AdmitStep
  <2> QED
    BY <1>1, <1>14, <2>2, <2>3 DEF AdmitStep, QueueType
<1>15. CASE AdmitEnd
  BY <1>1, <1>2, <1>15 DEF AdmitEnd, queueVars, Goto, QueueType, Phases
<1>16. CASE SwapIn \/ Decode \/ PostFinish \/ AllDone \/ UNCHANGED allVars
  BY <1>1, <1>16 DEF SwapIn, Decode, PostFinish, AllDone, allVars, schedulerVars, queueVars,
                     batchVars, QueueType
<1>17. CASE SwapInIteration
  <2>1. cur \in Request
    BY <1>5, <1>17 DEF SwapInIteration, SwapInStep
  <2>2. Tail(swapped) \in Seq(Request)
    <3>1. CASE swapped = <<>>
      BY <1>2, <3>1
    <3> QED
      BY <1>1, <1>3, <3>1
  <2>3. /\ waiting' \in Seq(Request) /\ running' \in Seq(Request) /\ swapped' \in Seq(Request)
    BY <1>1, <1>4, <1>17, <2>1, <2>2 DEF SwapInIteration, queueVars
  <2> QED
    BY <1>1, <1>17, <2>3 DEF SwapInIteration, batchVars, QueueType
<1>18. CASE PickDecode
  BY <1>1, <1>3, <1>18 DEF PickDecode, batchVars, QueueType
<1>19. CASE Evict
  <2>1. running' \in Seq(Request) /\ seq' \in Request \cup {NoRequest}
    BY <1>1, <1>3, <1>19 DEF Evict
  <2> QED
    BY <1>1, <1>19, <2>1 DEF Evict, batchVars, QueueType
<1>20. CASE EvictSwapStep
  <2>1. cur \in Request
    BY <1>5, <1>20 DEF EvictSwapStep, SwapOutStep
  <2> QED
    BY <1>1, <1>4, <1>20, <2>1 DEF EvictSwapStep, batchVars, QueueType
<1>21. CASE EvictDropStep
  <2>1. cur \in Request
    BY <1>5, <1>21 DEF EvictDropStep, DeallocateStep
  <2>2. Requeue(cur) \in Seq(Request)
    BY <1>1, <2>1, ConcatProperties DEF Requeue
  <2> QED
    BY <1>1, <1>21, <2>2 DEF EvictDropStep, batchVars, QueueType
<1>22. CASE DecodeStep
  <2>1. cur \in Request
    BY <1>5, <1>22 DEF DecodeStep, AppendStep, AppendNewBlock, AppendFillsBlock, AppendInside,
                       AppendRaises, Appending
  <2>2. scheduled_seqs' \in Seq(Request) /\ seq' \in Request \cup {NoRequest}
    BY <1>1, <1>4, <1>22, <2>1 DEF DecodeStep
  <2> QED
    BY <1>1, <1>22, <2>2 DEF DecodeStep, queueVars, QueueType
<1>23. CASE DecodeEnd
  <2>1. PutBack \in Seq(Request)
    BY <1>1, ConcatProperties DEF PutBack
  <2> QED
    BY <1>1, <1>2, <1>23, <2>1 DEF DecodeEnd, Goto, QueueType, Phases
<1>24. CASE Run
  <2>1. /\ phase' \in Phases \cup Failures
        /\ phase' = "record" => EnableChunkedPrefill
        /\ todo' \in Seq(Request)
    BY <1>1, <1>2, <1>24 DEF Run, Goto, Phases, Failures, ChunkedBatch
  <2> QED
    BY <1>1, <1>24, <2>1 DEF Run, queueVars, batchVars, QueueType
<1>25. CASE Record
  <2>1. Head(todo) \in Request /\ Tail(todo) \in Seq(Request)
    BY <1>1, <1>3, <1>25 DEF Record
  <2>2. num_computed_tokens[Head(todo)] + RunnerChunk(Head(todo)) \in Nat
    <3>1. QueueType /\ TypeOK
      BY DEF ClientInv, TypeInv
    <3>2. num_prompt_tokens[Head(todo)] \in Nat
      BY <2>1, <3>1 DEF TypeOK
    <3> QED
      BY <2>1, <3>1, <3>2, ChunkWithinPrompt
  <2>3. num_computed_tokens' \in [Request -> Nat]
    BY <1>1, <1>25, <2>2 DEF Record
  <2> QED
    BY <1>1, <1>25, <2>1, <2>3 DEF Record, queueVars, batchVars, QueueType
<1>26. CASE RecordEnd \/ PostSkip \/ PostContinue
  BY <1>1, <1>3, <1>26 DEF RecordEnd, PostSkip, PostContinue, queueVars, batchVars, QueueType,
                           Phases
<1>27. ASSUME NEW t \in Token, PostAppend(t) PROVE QueueType'
  BY <1>1, <1>3, <1>27 DEF PostAppend, queueVars, batchVars, QueueType
<1>28. CASE PostFinishStep
  <2>1. Unlist(seq) \in Seq(Request)
    BY <1>1, RemoveFirstType DEF Unlist
  <2>2. running' \in Seq(Request) /\ seq' \in Request \cup {NoRequest}
    BY <1>1, <1>28, <2>1 DEF PostFinishStep
  <2> QED
    BY <1>1, <1>28, <2>2 DEF PostFinishStep, batchVars, QueueType
<1>29. CASE PostEnd
  <2>1. /\ UNCHANGED <<queueVars, num_computed_tokens, seq>>
        /\ phase' = "idle" /\ todo' = <<>> /\ scheduled_seqs' = <<>>
        /\ num_batched_tokens' = 0
    BY <1>29 DEF PostEnd, Goto
  <2>2. is_prefill' \in BOOLEAN
    BY <1>29 DEF PostEnd
  <2> QED
    BY <1>1, <1>2, <2>1, <2>2 DEF queueVars, QueueType, Phases
<1> QED
  BY <1>9, <1>10, <1>11, <1>12, <1>13, <1>14, <1>15, <1>16, <1>17, <1>18, <1>19, <1>20,
     <1>21, <1>22, <1>23, <1>24, <1>25, <1>26, <1>27, <1>28, <1>29
  DEF SchedulerNext, EngineStep

LEMMA ClientInit ==
  ASSUME SchedulerInit
  PROVE  ClientInv
<1>1. TypeInv /\ PromptKept
  BY InitType, PromptInit DEF SchedulerInit
<1>2. QueueType
  <2>1. <<>> \in Seq(Request) /\ is_prefill \in BOOLEAN
    BY EmptySeq DEF SchedulerInit
  <2> QED
    BY <2>1 DEF SchedulerInit, QueueType, Phases
<1> QED
  BY <1>1, <1>2 DEF ClientInv

LEMMA ClientKept ==
  ASSUME ClientInv, [SchedulerNext]_allVars
  PROVE  ClientInv'
<1>1. [Next]_vars
  BY ClientSteps
<1>2. TypeInv' /\ PromptKept'
  BY <1>1, TypeStep, PromptStep DEF ClientInv
<1>3. QueueType'
  BY <1>2, QueueTypeStep
<1> QED
  BY <1>2, <1>3 DEF ClientInv

LEMMA ClientInvariant == SchedulerSpec => []ClientInv
<1>1. SchedulerInit => ClientInv
  BY ClientInit
<1>2. ClientInv /\ [SchedulerNext]_allVars => ClientInv'
  BY ClientKept
<1> QED
  BY <1>1, <1>2, PTL DEF SchedulerSpec

(***************************************************************************)
(* Every behaviour of the scheduler is one of the block manager: schedule, *)
(* preempt and postprocess respect the life cycle of a sequence.           *)
(***************************************************************************)
THEOREM BlockManagerImplemented == SchedulerSpec => ImplementsBlockManager
<1>1. SchedulerInit => Init
  BY DEF SchedulerInit
<1>2. ClientInv /\ [SchedulerNext]_allVars => [Next]_vars
  BY ClientSteps
<1> QED
  BY <1>1, <1>2, ClientInvariant, PTL DEF SchedulerSpec, ImplementsBlockManager, Spec

\* What is known of the block manager holds whenever the scheduler runs.
LEMMA ManagerUnderScheduler == SchedulerSpec => [](ManagerInv /\ CacheInv)
<1>1. SchedulerSpec => Spec
  BY BlockManagerImplemented DEF ImplementsBlockManager
<1> QED
  BY <1>1, ManagerInvariant, CacheInvariant, PTL

-----------------------------------------------------------------------------
(* What allocate counts as cached.                                         *)

(***************************************************************************)
(* A sequence without a page table has nothing cached, and allocate never  *)
(* counts more than the blocks it has gone through, so never more than the *)
(* sequence has: what schedule charges to its budget is not negative.      *)
(***************************************************************************)
CachedInv ==
  /\ \A s \in Request :
       status[s] \in {"absent", "waiting"} /\ s # cur => num_cached_tokens[s] = 0
  /\ op = "allocate" =>
       /\ num_cached_tokens[cur] <= Len(block_table[cur]) * BlockSize
       /\ num_cached_tokens[cur] <= SeqLen(cur)

(***************************************************************************)
(* An iteration of allocate counts a block only if it is full.             *)
(***************************************************************************)
LEMMA AllocateCount ==
  ASSUME ManagerInv, CacheInv, CachedInv, AllocateStep, NEW s \in Request, s = cur
  PROVE  /\ op = "allocate" /\ UNCHANGED token_ids
         /\ \A u \in Request \ {s} : num_cached_tokens'[u] = num_cached_tokens[u]
         /\ num_cached_tokens'[s] \in {num_cached_tokens[s], num_cached_tokens[s] + BlockSize}
         /\ num_cached_tokens'[s] <= SeqLen(s)
         /\ op' # "idle" => /\ cur' = s /\ UNCHANGED status
                            /\ num_cached_tokens'[s] <= Len(block_table'[s]) * BlockSize
         /\ op' = "idle" => status' = [status EXCEPT ![s] = "running"]
<1>1. TypeInv /\ TypeOK /\ op = "allocate"
  BY DEF ManagerInv, TypeInv, AllocateStep, AllocateMiss, AllocateShared, AllocateRevived
<1>2. PICK b \in BlockId : AddToTable(b)
  <2>1. CASE AllocateMiss
    <3>1. free_block_ids # <<>>
      BY <1>1, LenProperties, EmptySeq, NumBlocksPositive
      DEF TypeInv, MethodHasRoom, TypeOK
    <3> QED
      BY <1>1, <2>1, <3>1, EndsType DEF AllocateMiss, TypeOK
  <2>2. CASE AllocateShared \/ AllocateRevived
    BY <1>1, <2>2 DEF AllocateShared, AllocateRevived, CacheHit, TypeOK
  <2> QED
    BY <2>1, <2>2 DEF AllocateStep
<1>3. PICK n : n = Len(block_table[s])
  OBVIOUS
<1>4. /\ UNCHANGED token_ids
      /\ (n + 1) * BlockSize > SeqLen(s) => NextHash = NoHash
  BY <1>1, <1>2, <1>3, AllocateIteration
<1>5. \A k \in Nat : (k + 1) * BlockSize \in Int /\ (k + 1) * BlockSize = k * BlockSize + BlockSize
                     /\ k * BlockSize \in Int
  BY BlockManagerAssumption
<1>6. n \in Nat
  BY <1>1, <1>3, LenProperties DEF TypeOK
<1>7. SeqLen(s) \in Nat /\ num_cached_tokens[s] \in Nat /\ BlockSize \in Nat
  BY <1>1, SettledWithinLength, BlockManagerAssumption DEF TypeOK
<1>8. num_cached_tokens[s] <= n * BlockSize /\ num_cached_tokens[s] <= SeqLen(s)
  BY <1>1, <1>3 DEF CachedInv
<1>9. /\ num_cached_tokens' = num_cached_tokens
      \/ /\ num_cached_tokens' = [num_cached_tokens EXCEPT ![s] = @ + BlockSize]
         /\ NextHash \in DOMAIN hash_to_block_id
  BY DEF AllocateStep, AllocateMiss, AllocateShared, AllocateRevived, CacheHit, CountCached
<1>10. NextHash \in DOMAIN hash_to_block_id => (n + 1) * BlockSize <= SeqLen(s)
  BY <1>4, <1>5, <1>6, <1>7 DEF CacheInv, LabelInv, IndexInv
<1>11. /\ \A u \in Request \ {s} : num_cached_tokens'[u] = num_cached_tokens[u]
       /\ \/ num_cached_tokens'[s] = num_cached_tokens[s]
          \/ /\ num_cached_tokens'[s] = num_cached_tokens[s] + BlockSize
             /\ NextHash \in DOMAIN hash_to_block_id
  BY <1>1, <1>9 DEF TypeOK
<1>12. num_cached_tokens'[s] <= SeqLen(s) /\ num_cached_tokens'[s] <= (n + 1) * BlockSize
  BY <1>5, <1>6, <1>7, <1>8, <1>10, <1>11
<1>13. /\ op' # "idle" => cur' = s /\ UNCHANGED status
       /\ op' = "idle" => status' = [status EXCEPT ![s] = "running"]
       /\ block_table' = [block_table EXCEPT ![s] = Append(block_table[s], b)]
  BY <1>1, <1>2 DEF AddToTable, Return, Call
<1>14. Len(block_table'[s]) = n + 1
  BY <1>1, <1>2, <1>3, <1>13, AppendType DEF TypeOK
<1> QED
  BY <1>1, <1>4, <1>11, <1>12, <1>13, <1>14

LEMMA CachedStep ==
  ASSUME ManagerInv, CacheInv, CachedInv, [Next]_vars
  PROVE  CachedInv'
<1>1. /\ TypeOK /\ num_cached_tokens \in [Request -> Nat]
      /\ status \in [Request -> {"absent", "waiting", "running", "swapped", "finished"}]
      /\ cur = NoRequest <=> op = "idle"
      /\ NoRequest \notin Request
  BY BlockManagerAssumption DEF ManagerInv, TypeInv, TypeOK
<1>2. ASSUME NEW s \in Request,
             \/ NewSequence(s)
             \/ \E t \in Token : append_token(s, t)
             \/ CopyOnWrite(s)
      PROVE  CachedInv'
  <2>1. /\ op = "idle" /\ op' # "allocate" /\ UNCHANGED num_cached_tokens
        /\ \A u \in Request : status'[u] \in {"absent", "waiting"} =>
             status[u] \in {"absent", "waiting"}
    <3>1. CASE NewSequence(s)
      BY <1>1, <3>1 DEF NewSequence, Idle, callVars
    <3>2. CASE CopyOnWrite(s) \/ \E t \in Token : append_token(s, t)
      BY <3>2 DEF append_token, CopyOnWrite, Idle, Call, seqVars, callVars
    <3> QED
      BY <1>2, <3>1, <3>2
  <2> QED
    BY <1>1, <2>1 DEF CachedInv
<1>3. ASSUME NEW s \in Request, NEW n \in ChunkEnds, RecordComputed(s, n)
      PROVE  CachedInv'
  <2>1. /\ op = "idle" /\ op' = op /\ UNCHANGED <<status, cur>> /\ status[s] = "running"
        /\ num_cached_tokens' = [num_cached_tokens EXCEPT ![s] = n]
    BY <1>3 DEF RecordComputed, Idle, seqVars, callVars
  <2> QED
    BY <1>1, <2>1 DEF CachedInv
<1>4. ASSUME NEW s \in Request, BeginAllocate(s) PROVE CachedInv'
  <2>1. /\ op = "idle" /\ cur' = s /\ UNCHANGED <<status, num_cached_tokens, block_table, token_ids>>
        /\ status[s] = "waiting"
    BY <1>4 DEF BeginAllocate, Idle, Call, seqVars
  <2>2. num_cached_tokens'[s] = 0
    BY <1>1, <2>1 DEF CachedInv
  <2>3. Len(block_table[s]) * BlockSize \in Nat /\ SeqLen(s) \in Nat
    <3>1. SeqLen(s) \in Nat
      BY <1>1, SettledWithinLength
    <3>2. Len(block_table[s]) \in Nat
      BY <1>1, LenProperties DEF TypeOK
    <3> QED
      BY <3>1, <3>2, BlockManagerAssumption
  <2>4. SeqLen(s)' = SeqLen(s)
    BY <2>1 DEF SeqLen
  <2>5. SeqLen(cur)' = SeqLen(s)
    BY <2>1 DEF SeqLen
  <2>6. \A u \in Request : status'[u] \in {"absent", "waiting"} /\ u # cur' => num_cached_tokens'[u] = 0
    BY <1>1, <2>1 DEF CachedInv
  <2> QED
    BY <2>1, <2>2, <2>3, <2>5, <2>6 DEF CachedInv
<1>5. ASSUME NEW s \in Request, BeginFinish(s) \/ Preempt(s) \/ BeginSwapIn(s) PROVE CachedInv'
  <2>1. /\ op = "idle" /\ cur' = s /\ op' # "allocate" /\ UNCHANGED num_cached_tokens
        /\ \A u \in Request \ {s} : status'[u] = status[u]
    BY <1>1, <1>5 DEF BeginFinish, Preempt, BeginSwapIn, Idle, Call, seqVars
  <2> QED
    BY <1>1, <2>1 DEF CachedInv
<1>6. CASE AllocateStep
  <2>1. PICK s \in Request : s = cur
    BY <1>1, <1>6 DEF AllocateStep, AllocateMiss, AllocateShared, AllocateRevived, TypeOK
  <2>2. /\ op = "allocate" /\ UNCHANGED token_ids
        /\ \A u \in Request \ {s} : num_cached_tokens'[u] = num_cached_tokens[u]
        /\ num_cached_tokens'[s] <= SeqLen(s)
        /\ op' # "idle" => /\ cur' = s /\ UNCHANGED status
                           /\ num_cached_tokens'[s] <= Len(block_table'[s]) * BlockSize
        /\ op' = "idle" => status' = [status EXCEPT ![s] = "running"]
    BY <1>6, <2>1, AllocateCount
  <2>3. \A u \in Request : status'[u] \in {"absent", "waiting"} /\ u # cur' => num_cached_tokens'[u] = 0
    BY <1>1, <2>1, <2>2 DEF CachedInv
  <2>4. CASE op' # "idle"
    <3>1. SeqLen(cur)' = SeqLen(s)
      BY <2>2, <2>4 DEF SeqLen
    <3> QED
      BY <2>2, <2>3, <2>4, <3>1 DEF CachedInv
  <2> QED
    BY <2>3, <2>4 DEF CachedInv
<1>7. CASE DeallocateStep
  <2>1. cur \in Request /\ op' # "allocate" /\ UNCHANGED status
    BY <1>1, <1>7 DEF DeallocateStep, TypeOK, Return, Call, seqVars, callVars
  <2>2. \/ UNCHANGED <<cur, num_cached_tokens>>
        \/ num_cached_tokens' = [num_cached_tokens EXCEPT ![cur] = 0]
    BY <1>7 DEF DeallocateStep, callVars
  <2>3. \A u \in Request : status'[u] \in {"absent", "waiting"} /\ u # cur' => num_cached_tokens'[u] = 0
    BY <1>1, <2>1, <2>2 DEF CachedInv
  <2> QED
    BY <2>1, <2>3 DEF CachedInv
<1>8. CASE SwapOutStep \/ SwapInStep
  <2>1. /\ cur \in Request /\ op' # "allocate" /\ UNCHANGED num_cached_tokens
        /\ status[cur] \in {"running", "swapped"}
    BY <1>1, <1>8
    DEF SwapOutStep, SwapInStep, TypeOK, Return, Call, callVars, ManagerInv, TypeInv,
        MethodHasRoom
  <2>2. \/ UNCHANGED status
        \/ status' = [status EXCEPT ![cur] = "running"]
        \/ status' = [status EXCEPT ![cur] = "swapped"]
    BY <1>8 DEF SwapOutStep, SwapInStep
  <2>3. \A u \in Request : status'[u] \in {"absent", "waiting"} /\ u # cur' => num_cached_tokens'[u] = 0
    BY <1>1, <2>1, <2>2 DEF CachedInv
  <2> QED
    BY <2>1, <2>3 DEF CachedInv
<1>9. CASE AppendStep
  <2>1. /\ cur \in Request /\ op' # "allocate" /\ UNCHANGED <<num_cached_tokens, status>>
        /\ status[cur] = "running"
    BY <1>1, <1>9
    DEF AppendStep, AppendNewBlock, AppendFillsBlock, AppendInside, AppendRaises, AppendDone,
        Raise, Appending, TypeOK, Return, Call, seqVars, callVars, ManagerInv, TypeInv,
        MethodHasRoom
  <2>2. \A u \in Request : status'[u] \in {"absent", "waiting"} /\ u # cur' => num_cached_tokens'[u] = 0
    BY <1>1, <2>1 DEF CachedInv
  <2> QED
    BY <2>1, <2>2 DEF CachedInv
<1>10. CASE Stopped \/ UNCHANGED vars
  BY <1>10 DEF Stopped, vars, seqVars, callVars, CachedInv, SeqLen
<1> QED
  BY <1>2, <1>3, <1>4, <1>5, <1>6, <1>7, <1>8, <1>9, <1>10 DEF Next

LEMMA CachedInvariant == Spec => []CachedInv
<1>1. Init => CachedInv
  BY DEF Init, CachedInv
<1>2. ManagerInv /\ CacheInv /\ CachedInv /\ [Next]_vars => CachedInv'
  BY CachedStep
<1> QED
  BY <1>1, <1>2, ManagerInvariant, CacheInvariant, PTL DEF Spec

-----------------------------------------------------------------------------
(* Where the engine is when a method of the block manager executes.        *)

(***************************************************************************)
(* Each method runs at one place of schedule or postprocess, and for the   *)
(* sequence that this place works on.                                      *)
(***************************************************************************)
CallPlace ==
  /\ op = "allocate" => phase = "admit" /\ waiting # <<>> /\ cur = Head(waiting)
  /\ op = "swap_in" => phase = "swap_in" /\ swapped # <<>> /\ cur = Head(swapped)
  /\ op = "swap_out" => phase = "decode"
  /\ op = "deallocate" =>
       \/ phase = "decode" /\ status[cur] = "waiting"
       \/ phase = "postprocess" /\ cur = seq /\ status[cur] = "finished"
  /\ op = "may_append" => phase = "decode" /\ cur = seq

\* The local variables that have a meaning only at some places.
SeqPlace ==
  /\ seq # NoRequest => phase \in {"decode", "postprocess"}
  /\ phase \in {"swap_in", "idle"} => scheduled_seqs = <<>>
  /\ phase = "resume" => EnableChunkedPrefill
  /\ phase = "record" => EnableChunkedPrefill /\ is_prefill

PlaceInv == CallPlace /\ SeqPlace

(***************************************************************************)
(* Steps that start no method and end none.                                *)
(***************************************************************************)
LEMMA QuietCallPlace ==
  ASSUME op = "idle", op' = op
  PROVE  CallPlace'
BY DEF CallPlace

LEMMA PlaceStep ==
  ASSUME ClientInv, PlaceInv, [SchedulerNext]_allVars
  PROVE  PlaceInv'
<1>1. /\ CallPlace /\ SeqPlace
      /\ TypeOK /\ QueueType
      /\ cur = NoRequest <=> op = "idle"
      /\ status \in [Request -> {"absent", "waiting", "running", "swapped", "finished"}]
      /\ phase \in Phases \cup Failures
      /\ NoRequest \notin Request
  BY BlockManagerAssumption DEF PlaceInv, ClientInv, TypeInv, TypeOK, QueueType
<1>2. ASSUME NEW s \in Request, Add(s) PROVE PlaceInv'
  BY <1>1, <1>2
  DEF Add, NewSequence, BetweenSteps, Idle, callVars, batchVars, CallPlace, SeqPlace, PlaceInv
<1>3. CASE Schedule \/ PickDecode \/ PostContinue \/ PostEnd \/ PostSkip \/ DecodeEnd \/ Run
           \/ SwapInEnd \/ NothingScheduled
  <2>1. op = "idle" /\ op' = op
    BY <1>3 DEF Schedule, PickDecode, PostContinue, PostEnd, PostSkip, DecodeEnd, DecodeLoopDone,
                Run, SwapInEnd, NothingScheduled, BetweenSteps, Postprocessing, Idle, vars,
                callVars
  <2>2. SeqPlace'
    <3>1. CASE Schedule \/ PostEnd
      BY <1>1, <3>1 DEF Schedule, PostEnd, BetweenSteps, Postprocessing, Goto, SeqPlace
    <3>2. CASE PickDecode \/ PostContinue \/ PostSkip
      BY <1>1, <3>2 DEF PickDecode, PostContinue, PostSkip, Postprocessing, SeqPlace, batchVars
    <3>3. CASE DecodeEnd \/ SwapInEnd \/ NothingScheduled
      BY <1>1, <3>3 DEF DecodeEnd, SwapInEnd, NothingScheduled, DecodeLoopDone, Goto, SeqPlace,
                        batchVars
    <3>4. CASE Run
      <4>1. /\ seq = NoRequest /\ UNCHANGED <<seq, is_prefill>>
            /\ \/ phase' \in {"slots differ", "empty batch", "postprocess"}
               \/ phase' = "record" /\ ChunkedBatch
        BY <1>1, <3>4 DEF Run, Goto, SeqPlace, batchVars
      <4> QED
        BY <4>1 DEF SeqPlace, ChunkedBatch
    <3> QED
      BY <1>3, <3>1, <3>2, <3>3, <3>4
  <2> QED
    BY <2>1, <2>2, QuietCallPlace DEF PlaceInv
<1>4. CASE ResumePrefill \/ ResumeEnd \/ RecordEnd
  <2>1. op = "idle" /\ op' = op
    BY <1>1, <1>4 DEF ResumePrefill, ResumeEnd, RecordEnd, CallPlace, TypeOK, Methods, vars,
                      callVars
  <2>2. SeqPlace'
    BY <1>1, <1>4 DEF ResumePrefill, ResumeEnd, RecordEnd, Goto, batchVars, SeqPlace
  <2> QED
    BY <2>1, <2>2, QuietCallPlace DEF PlaceInv
<1>5. CASE Record \/ (\E t \in Token : PostAppend(t))
  <2>1. op = "idle" /\ op' = op
    BY <1>5 DEF Record, PostAppend, RecordComputed, append_token, Idle, callVars
  <2>2. SeqPlace'
    BY <1>1, <1>5 DEF Record, PostAppend, Postprocessing, batchVars, SeqPlace
  <2> QED
    BY <2>1, <2>2, QuietCallPlace DEF PlaceInv
<1>6. CASE Admit
  BY <1>1, <1>6
  DEF Admit, Admissible, BeginAllocate, Call, queueVars, CallPlace, SeqPlace, PlaceInv
<1>7. CASE AdmitStep
  <2>1. /\ op' = "idle" \/ UNCHANGED <<op, cur>>
        /\ phase = "admit" /\ op = "allocate"
    BY <1>1, <1>7 DEF AdmitStep, AllocateStep, AllocateMiss, AllocateShared, AllocateRevived,
                      AddToTable, Return, Call, CallPlace
  <2>2. SeqPlace'
    BY <1>1, <1>7, <2>1 DEF AdmitStep, SeqPlace
  <2>3. CallPlace'
    BY <1>1, <1>7, <2>1 DEF AdmitStep, CallPlace, queueVars
  <2> QED
    BY <2>2, <2>3 DEF PlaceInv
<1>8. CASE AdmitEnd
  <2>1. op = "idle" /\ op' = op
    BY <1>8 DEF AdmitEnd, Idle, vars, callVars
  <2>2. SeqPlace'
    BY <1>1, <1>8 DEF AdmitEnd, Goto, SeqPlace
  <2> QED
    BY <2>1, <2>2, QuietCallPlace DEF PlaceInv
<1>9. CASE SwapIn
  BY <1>1, <1>9
  DEF SwapIn, BeginSwapIn, Call, schedulerVars, queueVars, batchVars, CallPlace, SeqPlace,
      PlaceInv
<1>10. CASE SwapInIteration
  <2>1. /\ op' = "idle" \/ UNCHANGED <<op, cur>>
        /\ op = "swap_in"
    BY <1>10 DEF SwapInIteration, SwapInStep, Return, Call
  <2>2. SeqPlace'
    BY <1>1, <1>10, <2>1 DEF SwapInIteration, SeqPlace, batchVars
  <2>3. CallPlace'
    BY <1>1, <1>10, <2>1 DEF SwapInIteration, CallPlace, queueVars
  <2> QED
    BY <2>2, <2>3 DEF PlaceInv
<1>11. CASE Evict
  <2>1. /\ phase = "decode" /\ phase' = phase
        /\ UNCHANGED <<scheduled_seqs, is_prefill>>
    BY <1>11 DEF Evict, Deciding, batchVars
  <2>2. \/ op' = "swap_out"
        \/ op' = "deallocate" /\ status'[cur'] = "waiting"
    <3>1. ASSUME NEW s \in Request, Preempt(s)
          PROVE  \/ op' = "swap_out"
                 \/ op' = "deallocate" /\ status'[cur'] = "waiting"
      <4>1. \/ op' = "swap_out"
            \/ /\ op' = "deallocate" /\ cur' = s
               /\ status' = [status EXCEPT ![s] = "waiting"]
        BY <3>1 DEF Preempt, Call
      <4>2. status' = [status EXCEPT ![s] = "waiting"] => status'[s] = "waiting"
        BY <1>1
      <4> QED
        BY <4>1, <4>2
    <3>2. seq \in Request /\ (running # <<>> => Last(running) \in Request)
      BY <1>1, <1>11, EndsType DEF QueueType, Evict, Deciding
    <3> QED
      BY <1>11, <3>1, <3>2 DEF Evict
  <2> QED
    BY <2>1, <2>2 DEF CallPlace, SeqPlace, PlaceInv
<1>12. CASE EvictSwapStep
  <2>1. /\ op' = "idle" \/ UNCHANGED <<op, cur>>
        /\ op = "swap_out"
    BY <1>12 DEF EvictSwapStep, SwapOutStep, Return, Call, callVars
  <2> QED
    BY <1>1, <1>12, <2>1 DEF EvictSwapStep, batchVars, CallPlace, SeqPlace, PlaceInv
<1>13. CASE EvictDropStep \/ PostFinishStep
  <2>1. /\ op' = "idle" \/ UNCHANGED <<op, cur>>
        /\ op = "deallocate" /\ UNCHANGED status
    BY <1>13 DEF EvictDropStep, PostFinishStep, DeallocateStep, Return, Call, callVars, seqVars
  <2> QED
    BY <1>1, <1>13, <2>1
    DEF EvictDropStep, PostFinishStep, batchVars, CallPlace, SeqPlace, PlaceInv
<1>14. CASE Decode
  <2>1. /\ phase = "decode" /\ UNCHANGED <<phase, scheduled_seqs, is_prefill, seq>>
        /\ op = "idle"
        /\ \/ op' = "may_append" /\ cur' = seq
           \/ op' = "idle"
    BY <1>14 DEF Decode, Deciding, Idle, CopyOnWrite, Call, callVars, schedulerVars, batchVars
  <2> QED
    BY <2>1 DEF CallPlace, SeqPlace, PlaceInv
<1>15. CASE DecodeStep
  <2>1. /\ op' = "idle" \/ UNCHANGED <<op, cur>>
        /\ op = "may_append"
    BY <1>15 DEF DecodeStep, AppendStep, AppendNewBlock, AppendFillsBlock, AppendInside,
                 AppendRaises, AppendDone, Appending, Raise, Return, Call, callVars
  <2> QED
    BY <1>1, <1>15, <2>1 DEF DecodeStep, CallPlace, SeqPlace, PlaceInv
<1>16. CASE PostFinish
  <2>1. /\ phase = "postprocess" /\ UNCHANGED <<phase, scheduled_seqs, is_prefill, seq>>
        /\ op' = "deallocate" /\ cur' = seq /\ status'[cur'] = "finished"
    BY <1>1, <1>16
    DEF PostFinish, Postprocessing, BeginFinish, Call, schedulerVars, batchVars, QueueType
  <2> QED
    BY <2>1 DEF CallPlace, SeqPlace, PlaceInv
<1>17. CASE AllDone \/ UNCHANGED allVars
  BY <1>1, <1>17
  DEF AllDone, allVars, schedulerVars, queueVars, batchVars, vars, seqVars, callVars, CallPlace,
      SeqPlace, PlaceInv
<1> QED
  BY <1>2, <1>3, <1>4, <1>5, <1>6, <1>7, <1>8, <1>9, <1>10, <1>11, <1>12, <1>13, <1>14, <1>15,
     <1>16, <1>17
  DEF SchedulerNext, EngineStep

LEMMA PlaceInit ==
  ASSUME SchedulerInit
  PROVE  PlaceInv
BY DEF SchedulerInit, Init, PlaceInv, CallPlace, SeqPlace

LEMMA PlaceInvariant == SchedulerSpec => []PlaceInv
<1>1. SchedulerInit => PlaceInv
  BY PlaceInit
<1>2. ClientInv /\ PlaceInv /\ [SchedulerNext]_allVars => PlaceInv'
  BY PlaceStep
<1> QED
  BY <1>1, <1>2, ClientInvariant, PTL DEF SchedulerSpec

-----------------------------------------------------------------------------
(* The token budget.                                                       *)

(***************************************************************************)
(* schedule never counts past its budget: a chunk is cut to what is left,  *)
(* and a whole prompt is admitted only if it fits before the prefix cache  *)
(* is consulted.                                                           *)
(***************************************************************************)
BudgetInv ==
  /\ num_batched_tokens \in 0 .. MaxNumBatchedTokens
  /\ op = "allocate" /\ ~EnableChunkedPrefill =>
       num_batched_tokens + SeqLen(cur) <= MaxNumBatchedTokens

LEMMA BudgetStep ==
  ASSUME ClientInv, PlaceInv, ManagerInv, CacheInv, CachedInv, BudgetInv,
         [SchedulerNext]_allVars
  PROVE  BudgetInv'
<1>1. /\ num_batched_tokens \in Nat /\ num_batched_tokens <= MaxNumBatchedTokens
      /\ MaxNumBatchedTokens \in Nat /\ MaxChunkSize \in Nat
      /\ TypeOK /\ QueueType /\ CallPlace
  BY SchedulerAssumption DEF BudgetInv, ClientInv, TypeInv, PlaceInv
<1>2. \A n \in Int : Chunk(n) \in Int /\ Chunk(n) <= MaxNumBatchedTokens - num_batched_tokens
  BY <1>1 DEF Chunk, Least
<1>3. \A s \in Request : /\ remaining_prefill_tokens(s) \in Int
                         /\ SeqLen(s) \in Int
                         /\ num_cached_tokens[s] \in Nat
  <2> SUFFICES ASSUME NEW s \in Request
               PROVE  /\ remaining_prefill_tokens(s) \in Int
                      /\ SeqLen(s) \in Int
                      /\ num_cached_tokens[s] \in Nat
    OBVIOUS
  <2>1. num_prompt_tokens[s] \in Nat /\ num_computed_tokens[s] \in Nat
    BY <1>1 DEF QueueType, TypeOK
  <2>2. num_cached_tokens[s] \in Nat
    BY <1>1 DEF TypeOK
  <2>3. SeqLen(s) \in Int
    BY <1>1, SettledWithinLength
  <2> QED
    BY <2>1, <2>2, <2>3 DEF remaining_prefill_tokens
<1>4. ASSUME op' # "allocate", num_batched_tokens' \in {0, num_batched_tokens}
      PROVE  BudgetInv'
  BY <1>1, <1>4 DEF BudgetInv
<1>5. CASE ResumePrefill
  <2>1. op' # "allocate"
    BY <1>1, <1>5 DEF ResumePrefill, CallPlace, vars, callVars
  <2>2. Chunk(remaining_prefill_tokens(Head(todo))) \in Int
        /\ Chunk(remaining_prefill_tokens(Head(todo))) <= MaxNumBatchedTokens - num_batched_tokens
    <3>1. Head(todo) \in Request
      BY <1>1, <1>5, EndsType DEF QueueType, ResumePrefill
    <3> QED
      BY <1>2, <1>3, <3>1
  <2>3. num_batched_tokens' \in Nat /\ num_batched_tokens' <= MaxNumBatchedTokens
    BY <1>1, <1>5, <2>2 DEF ResumePrefill
  <2> QED
    BY <1>1, <2>1, <2>3 DEF BudgetInv
<1>6. CASE Admit
  <2>1. PICK s \in Request : s = Head(waiting)
    BY <1>1, <1>6, EndsType DEF QueueType, Admit, Admissible
  <2>2. cur' = s /\ WithinBudget(s) /\ UNCHANGED <<token_ids, num_cached_tokens>>
    BY <1>6, <2>1 DEF Admit, Admissible, BeginAllocate, Call, seqVars
  <2>3. SeqLen(cur)' = SeqLen(s)
    BY <2>2 DEF SeqLen
  <2>4. CASE EnableChunkedPrefill
    <3>1. PICK chunk : chunk = Chunk(SeqLen(s) - num_cached_tokens[s])
      OBVIOUS
    <3>2. chunk > 0 /\ chunk \in Int /\ chunk <= MaxNumBatchedTokens - num_batched_tokens
      BY <1>2, <1>3, <2>2, <2>4, <3>1 DEF WithinBudget
    <3>3. num_batched_tokens' = num_batched_tokens + chunk
      BY <1>6, <2>2, <2>4, <3>1 DEF Admit
    <3> QED
      BY <1>1, <2>4, <3>2, <3>3 DEF BudgetInv
  <2>5. CASE ~EnableChunkedPrefill
    <3>1. num_batched_tokens' = num_batched_tokens
      BY <1>6, <2>5 DEF Admit
    <3>2. num_batched_tokens + SeqLen(s) <= MaxNumBatchedTokens
      BY <2>2, <2>5 DEF WithinBudget
    <3> QED
      BY <1>1, <2>3, <3>1, <3>2 DEF BudgetInv
  <2> QED
    BY <2>4, <2>5
<1>7. CASE AdmitStep
  <2>1. PICK s \in Request : s = cur
    BY <1>1, <1>7, BlockManagerAssumption
    DEF AdmitStep, AllocateStep, AllocateMiss, AllocateShared, AllocateRevived, TypeOK
  <2>2. /\ op = "allocate" /\ UNCHANGED token_ids
        /\ num_cached_tokens'[s] \in {num_cached_tokens[s], num_cached_tokens[s] + BlockSize}
        /\ num_cached_tokens'[s] <= SeqLen(s)
        /\ op' # "idle" => cur' = s
    BY <1>7, <2>1, AllocateCount DEF AdmitStep
  <2>3. CASE op' # "idle"
    <3>1. num_batched_tokens' = num_batched_tokens /\ SeqLen(cur)' = SeqLen(s)
      BY <1>7, <2>2, <2>3 DEF AdmitStep, SeqLen
    <3> QED
      BY <2>1, <2>2, <3>1 DEF BudgetInv
  <2>4. CASE op' = "idle"
    <3>1. num_batched_tokens' = num_batched_tokens + Charge(s)
      BY <1>7, <2>1, <2>4 DEF AdmitStep
    <3>2. num_cached_tokens'[s] \in Nat
      BY <1>3, <2>2, BlockManagerAssumption
    <3>3. Charge(s) \in Nat /\ num_batched_tokens + Charge(s) <= MaxNumBatchedTokens
      BY <1>1, <1>3, <2>1, <2>2, <3>2 DEF Charge, BudgetInv
    <3> QED
      BY <1>1, <2>4, <3>1, <3>3 DEF BudgetInv
  <2> QED
    BY <2>3, <2>4
<1>8. ASSUME NEW s \in Request, Add(s) PROVE BudgetInv'
  <2>1. op' # "allocate" /\ num_batched_tokens' = num_batched_tokens
    BY <1>8 DEF Add, NewSequence, BetweenSteps, Idle, callVars, batchVars
  <2> QED
    BY <1>4, <2>1
<1>9. CASE Schedule \/ PickDecode \/ PostContinue \/ PostEnd \/ PostSkip \/ DecodeEnd \/ Run
           \/ SwapInEnd \/ NothingScheduled \/ AdmitEnd
  <2>1. op' # "allocate" /\ num_batched_tokens' \in {0, num_batched_tokens}
    BY <1>9 DEF Schedule, PickDecode, PostContinue, PostEnd, PostSkip, DecodeEnd, DecodeLoopDone,
                Run, SwapInEnd, NothingScheduled, AdmitEnd, BetweenSteps, Postprocessing, Idle,
                vars, callVars, batchVars
  <2> QED
    BY <1>4, <2>1
<1>10. CASE ResumeEnd \/ RecordEnd
  <2>1. op' # "allocate" /\ num_batched_tokens' = num_batched_tokens
    BY <1>1, <1>10 DEF ResumeEnd, RecordEnd, CallPlace, vars, callVars, batchVars
  <2> QED
    BY <1>4, <2>1
<1>11. CASE Record \/ (\E t \in Token : PostAppend(t))
  <2>1. op' # "allocate" /\ num_batched_tokens' = num_batched_tokens
    BY <1>11 DEF Record, PostAppend, RecordComputed, append_token, Idle, callVars, batchVars
  <2> QED
    BY <1>4, <2>1
<1>12. CASE SwapIn \/ Decode \/ PostFinish \/ Evict
  <2>1. op' # "allocate" /\ num_batched_tokens' = num_batched_tokens
    BY <1>12 DEF SwapIn, Decode, PostFinish, Evict, BeginSwapIn, CopyOnWrite, BeginFinish,
                 Preempt, Idle, Call, schedulerVars, batchVars, callVars
  <2> QED
    BY <1>4, <2>1
<1>13. CASE SwapInIteration \/ EvictSwapStep \/ EvictDropStep \/ DecodeStep \/ PostFinishStep
  <2>1. op' # "allocate"
    BY <1>13 DEF SwapInIteration, EvictSwapStep, EvictDropStep, DecodeStep, PostFinishStep,
                 SwapInStep, SwapOutStep, DeallocateStep, AppendStep, AppendNewBlock,
                 AppendFillsBlock, AppendInside, AppendRaises, AppendDone, Appending, Raise,
                 Return, Call, callVars
  <2>2. num_batched_tokens' = num_batched_tokens
    BY <1>13 DEF SwapInIteration, EvictSwapStep, EvictDropStep, DecodeStep, PostFinishStep,
                 batchVars
  <2> QED
    BY <1>4, <2>1, <2>2
<1>14. CASE AllDone \/ UNCHANGED allVars
  BY <1>1, <1>14
  DEF AllDone, allVars, schedulerVars, batchVars, vars, seqVars, callVars, SeqLen, BudgetInv
<1> QED
  BY <1>5, <1>6, <1>7, <1>8, <1>9, <1>10, <1>11, <1>12, <1>13, <1>14
  DEF SchedulerNext, EngineStep

(***************************************************************************)
(* Everything a step of the scheduler may rely on so far.                  *)
(***************************************************************************)
LEMMA BudgetInvariant == SchedulerSpec => [](CachedInv /\ BudgetInv)
<1>1. SchedulerSpec => []CachedInv
  BY BlockManagerImplemented, CachedInvariant DEF ImplementsBlockManager
<1>2. SchedulerInit => BudgetInv
  BY SchedulerAssumption DEF SchedulerInit, Init, BudgetInv
<1>3. ClientInv /\ PlaceInv /\ ManagerInv /\ CacheInv /\ CachedInv /\ BudgetInv
        /\ [SchedulerNext]_allVars => BudgetInv'
  BY BudgetStep
<1> QED
  BY <1>1, <1>2, <1>3, ClientInvariant, PlaceInvariant, ManagerUnderScheduler, PTL
  DEF SchedulerSpec

(***************************************************************************)
(* The queues and the local variables of schedule and postprocess always   *)
(* hold values of their types; in particular what schedule has counted     *)
(* never becomes negative.                                                 *)
(***************************************************************************)
THEOREM SchedulerTypeCorrect == SchedulerSpec => []SchedulerTypeOK
<1>1. ClientInv /\ BudgetInv => SchedulerTypeOK
  <2> SUFFICES ASSUME ClientInv, BudgetInv PROVE SchedulerTypeOK
    OBVIOUS
  <2>1. num_batched_tokens \in Nat
    BY SchedulerAssumption DEF BudgetInv
  <2> QED
    BY <2>1 DEF ClientInv, QueueType, SchedulerTypeOK
<1> QED
  BY <1>1, ClientInvariant, BudgetInvariant, PTL

-----------------------------------------------------------------------------
(* Without chunked prefill, a batch has one slot per token.                *)

(***************************************************************************)
(* Whole blocks are cached, so the queries of a prefill begin where a      *)
(* block begins.                                                           *)
(***************************************************************************)
SlotInv ==
  ~EnableChunkedPrefill =>
    /\ \A s \in Request : \E k \in Nat : num_cached_tokens[s] = k * BlockSize
    /\ SlotsAgree

LEMMA SlotStep ==
  ASSUME ClientInv, PlaceInv, ManagerInv, CacheInv, CachedInv, SlotInv, [SchedulerNext]_allVars
  PROVE  SlotInv'
<1> SUFFICES ASSUME ~EnableChunkedPrefill
             PROVE  /\ \A s \in Request : \E k \in Nat : num_cached_tokens'[s] = k * BlockSize
                    /\ SlotsAgree'
  BY DEF SlotInv
<1>1. /\ \A s \in Request : \E k \in Nat : num_cached_tokens[s] = k * BlockSize
      /\ phase # "slots differ"
      /\ TypeOK /\ num_cached_tokens \in [Request -> Nat] /\ BlockSize \in Nat \ {0}
      /\ phase # "record"
  BY BlockManagerAssumption
  DEF SlotInv, SlotsAgree, ClientInv, TypeInv, TypeOK, PlaceInv, SeqPlace
<1>2. \A s \in Request : \E k \in Nat : num_cached_tokens'[s] = k * BlockSize
  <2>1. \/ UNCHANGED num_cached_tokens
        \/ AllocateStep
        \/ DeallocateStep
    <3>1. Record \/ UNCHANGED num_cached_tokens \/ AllocateStep \/ DeallocateStep
      BY DEF SchedulerNext, EngineStep, Add, NewSequence, Schedule, ResumePrefill, ResumeEnd,
             Admit, BeginAllocate, AdmitStep, AdmitEnd, SwapIn, BeginSwapIn, SwapInIteration,
             SwapInStep, SwapInEnd, PickDecode, Evict, Preempt, EvictSwapStep, SwapOutStep,
             EvictDropStep, Decode, CopyOnWrite, DecodeStep, AppendStep, AppendNewBlock,
             AppendFillsBlock, AppendInside, AppendRaises, AppendDone, Raise, DecodeEnd,
             NothingScheduled, Run, RecordEnd, PostSkip, PostAppend, append_token,
             PostContinue, PostFinish, BeginFinish, PostFinishStep, PostEnd, AllDone, allVars,
             vars
    <3>2. ~Record
      BY <1>1 DEF Record
    <3> QED
      BY <3>1, <3>2
  <2>2. CASE AllocateStep
    <3>1. PICK s \in Request : s = cur
      BY <1>1, <2>2, BlockManagerAssumption
      DEF AllocateStep, AllocateMiss, AllocateShared, AllocateRevived, TypeOK
    <3>2. /\ \A u \in Request \ {s} : num_cached_tokens'[u] = num_cached_tokens[u]
          /\ num_cached_tokens'[s] \in {num_cached_tokens[s], num_cached_tokens[s] + BlockSize}
      BY <2>2, <3>1, AllocateCount
    <3>3. \A k \in Nat : k * BlockSize + BlockSize = (k + 1) * BlockSize /\ k + 1 \in Nat
      BY BlockManagerAssumption
    <3>4. PICK k \in Nat : num_cached_tokens[s] = k * BlockSize
      BY <1>1
    <3>5. k * BlockSize + BlockSize = (k + 1) * BlockSize /\ k + 1 \in Nat
      BY <3>3
    <3>6. \E l \in Nat : num_cached_tokens'[s] = l * BlockSize
      BY <3>2, <3>4, <3>5
    <3> QED
      BY <1>1, <3>2, <3>6
  <2>3. CASE DeallocateStep
    <3>1. 0 = 0 * BlockSize
      BY BlockManagerAssumption
    <3>2. \/ UNCHANGED num_cached_tokens
          \/ num_cached_tokens' = [num_cached_tokens EXCEPT ![cur] = 0]
      BY <2>3 DEF DeallocateStep
    <3> QED
      BY <1>1, <3>1, <3>2
  <2> QED
    BY <1>1, <2>1, <2>2, <2>3
<1>3. SlotsAgree'
  <2>1. SlotsMatchQueries
    <3>1. \A k \in Nat : (k * BlockSize) % BlockSize = 0
      BY BlockManagerAssumption
    <3>2. \A s \in Batch : s \in Request
      BY DEF Batch, Range, ClientInv, QueueType
    <3>3. \A s \in Batch : QueryStart(s) = num_cached_tokens[s]
      BY DEF QueryStart, ChunkedBatch
    <3> QED
      BY <1>1, <3>1, <3>2, <3>3 DEF SlotsMatchQueries
  <2>2. CASE Run
    BY <2>1, <2>2 DEF Run, Goto, ChunkedBatch, SlotsAgree
  <2>3. CASE ~Run
    BY <1>1, <2>3
    DEF SchedulerNext, EngineStep, Add, Schedule, ResumePrefill, ResumeEnd, Admit, AdmitStep,
        AdmitEnd, SwapIn, SwapInIteration, SwapInEnd, PickDecode, Evict, EvictSwapStep,
        EvictDropStep, Decode, DecodeStep, DecodeEnd, NothingScheduled, Record, RecordEnd,
        PostSkip, PostAppend, PostContinue, PostFinish, PostFinishStep, PostEnd, AllDone,
        allVars, schedulerVars, Goto, SlotsAgree
  <2> QED
    BY <2>2, <2>3
<1> QED
  BY <1>2, <1>3

(***************************************************************************)
(* Without chunked prefill, store_kvcache has one slot per token of every  *)
(* batch, since what is cached of a prompt ends where a block ends.  (With *)
(* chunked prefill a chunk need not begin where a block begins.)           *)
(***************************************************************************)
THEOREM SlotsAlwaysAgree == ~EnableChunkedPrefill => (SchedulerSpec => []SlotsAgree)
<1> SUFFICES ASSUME ~EnableChunkedPrefill PROVE SchedulerSpec => []SlotsAgree
  OBVIOUS
<1>1. SchedulerInit => SlotInv
  <2>1. 0 = 0 * BlockSize
    BY BlockManagerAssumption
  <2> QED
    BY <2>1 DEF SchedulerInit, Init, SlotInv, SlotsAgree
<1>2. ClientInv /\ PlaceInv /\ ManagerInv /\ CacheInv /\ CachedInv /\ SlotInv
        /\ [SchedulerNext]_allVars => SlotInv'
  BY SlotStep
<1>3. SlotInv => SlotsAgree
  BY DEF SlotInv
<1> QED
  BY <1>1, <1>2, <1>3, ClientInvariant, PlaceInvariant, ManagerUnderScheduler, BudgetInvariant,
     PTL DEF SchedulerSpec

-----------------------------------------------------------------------------
(* Sequences without repetition.                                           *)

LEMMA FrontRange ==
  ASSUME NEW S, NEW s \in Seq(S), IsInjective(s), s # <<>>
  PROVE  /\ Last(s) \in Range(s)
         /\ IsInjective(Front(s))
         /\ Range(Front(s)) = Range(s) \ {Last(s)}
<1>1. PICK n \in Nat \ {0} : n = Len(s)
  BY EndsType
<1>2. DOMAIN s = 1 .. n /\ Last(s) = s[n]
  BY <1>1, LenProperties DEF Last
<1>3. DOMAIN Front(s) = 1 .. n - 1 /\ \A j \in 1 .. n - 1 : Front(s)[j] = s[j]
  BY <1>1, FrontElements
<1>4. \A i \in 1 .. n, j \in 1 .. n : s[i] = s[j] => i = j
  BY <1>2 DEF IsInjective
<1>5. \A j \in 1 .. n : j \in 1 .. n - 1 \/ j = n
  OBVIOUS
<1>6. \A j \in 1 .. n - 1 : j \in 1 .. n /\ j # n
  OBVIOUS
<1>7. n \in 1 .. n
  OBVIOUS
<1>8. IsInjective(Front(s))
  BY <1>3, <1>4, <1>6 DEF IsInjective
<1>9. Range(Front(s)) = Range(s) \ {Last(s)}
  BY <1>2, <1>3, <1>4, <1>5, <1>6, <1>7 DEF Range
<1> QED
  BY <1>2, <1>7, <1>8, <1>9 DEF Range

LEMMA ConcatRange ==
  ASSUME NEW S, NEW a \in Seq(S), NEW b \in Seq(S),
         IsInjective(a), IsInjective(b), Range(a) \cap Range(b) = {}
  PROVE  /\ IsInjective(a \o b)
         /\ Range(a \o b) = Range(a) \cup Range(b)
<1> DEFINE r == a \o b
<1>1. PICK m \in Nat, n \in Nat : m = Len(a) /\ n = Len(b)
  BY LenProperties
<1>2. DOMAIN a = 1 .. m /\ DOMAIN b = 1 .. n
  BY <1>1, LenProperties
<1>3. /\ r \in Seq(S) /\ Len(r) = m + n
      /\ \A i \in 1 .. m + n : r[i] = IF i <= m THEN a[i] ELSE b[i - m]
  BY <1>1, ConcatProperties
<1>4. DOMAIN r = 1 .. m + n
  BY <1>3, LenProperties
<1> HIDE DEF r
<1>5. \A i \in 1 .. m : r[i] = a[i]
  <2>1. \A i \in 1 .. m : i \in 1 .. m + n /\ i <= m
    OBVIOUS
  <2> QED
    BY <1>3, <2>1
<1>6. \A i \in 1 .. n : r[m + i] = b[i] /\ m + i \in 1 .. m + n
  <2>1. \A i \in 1 .. n : m + i \in 1 .. m + n /\ ~(m + i <= m) /\ (m + i) - m = i
    OBVIOUS
  <2> QED
    BY <1>3, <2>1
<1>7. \A i \in 1 .. m + n : i \in 1 .. m \/ \E j \in 1 .. n : i = m + j
  <2> SUFFICES ASSUME NEW i \in 1 .. m + n, ~(i \in 1 .. m)
               PROVE  \E j \in 1 .. n : i = m + j
    OBVIOUS
  <2>1. i - m \in 1 .. n /\ i = m + (i - m)
    OBVIOUS
  <2> QED
    BY <2>1
<1>8. \A i \in 1 .. m : i \in 1 .. m + n
  OBVIOUS
<1>9. \A i \in 1 .. m + n : (i \in 1 .. m /\ r[i] \in Range(a)) \/ r[i] \in Range(b)
  BY <1>2, <1>5, <1>6, <1>7 DEF Range
<1>10. Range(r) = Range(a) \cup Range(b)
  <2>1. ASSUME NEW x \in Range(r) PROVE x \in Range(a) \cup Range(b)
    BY <1>4, <1>9, <2>1 DEF Range
  <2>2. ASSUME NEW x \in Range(a) PROVE x \in Range(r)
    BY <1>2, <1>4, <1>5, <1>8, <2>2 DEF Range
  <2>3. ASSUME NEW x \in Range(b) PROVE x \in Range(r)
    <3>1. PICK j \in 1 .. n : x = b[j]
      BY <1>2, <2>3 DEF Range
    <3>2. m + j \in 1 .. m + n /\ r[m + j] = x
      BY <1>6, <3>1
    <3> QED
      BY <1>4, <3>2 DEF Range
  <2> QED
    BY <2>1, <2>2, <2>3
<1>11. IsInjective(r)
  <2> SUFFICES ASSUME NEW i \in 1 .. m + n, NEW j \in 1 .. m + n, r[i] = r[j]
               PROVE  i = j
    BY <1>4 DEF IsInjective
  <2>1. CASE i \in 1 .. m /\ j \in 1 .. m
    BY <1>2, <1>5, <2>1 DEF IsInjective
  <2>2. CASE i \notin 1 .. m /\ j \notin 1 .. m
    <3>1. PICK k \in 1 .. n : i = m + k
      BY <1>7, <2>2
    <3>2. PICK l \in 1 .. n : j = m + l
      BY <1>7, <2>2
    <3>3. b[k] = b[l]
      BY <1>6, <3>1, <3>2
    <3> QED
      BY <1>2, <3>1, <3>2, <3>3 DEF IsInjective
  <2>3. CASE i \in 1 .. m /\ j \notin 1 .. m
    <3>1. r[i] \in Range(a)
      BY <1>2, <1>5, <2>3 DEF Range
    <3>2. r[j] \in Range(b)
      BY <1>9, <2>3
    <3> QED
      BY <3>1, <3>2
  <2>4. CASE i \notin 1 .. m /\ j \in 1 .. m
    <3>1. r[j] \in Range(a)
      BY <1>2, <1>5, <2>4 DEF Range
    <3>2. r[i] \in Range(b)
      BY <1>9, <2>4
    <3> QED
      BY <3>1, <3>2
  <2> QED
    BY <2>1, <2>2, <2>3, <2>4
<1> QED
  BY <1>10, <1>11 DEF r

-----------------------------------------------------------------------------
(* Queues and statuses.                                                    *)

(***************************************************************************)
(* While a method executes, the sequence it works on may be between two    *)
(* queues: preempt and postprocess give it up before its blocks are        *)
(* released, and put it where its status says afterwards.                  *)
(***************************************************************************)
Releasing(s) == op = "deallocate" /\ cur = s

Waits(s) == status[s] = "waiting" /\ ~Releasing(s)

Taken(s) == phase = "decode" /\ (s \in Batch \/ s = seq)

Owned(s) ==
  \/ status[s] = "running" /\ ~(op = "swap_out" /\ cur = s)
  \/ status[s] = "finished" /\ Releasing(s)

QueueInv ==
  /\ IsInjective(waiting) /\ IsInjective(running) /\ IsInjective(swapped)
  /\ phase = "decode" => IsInjective(scheduled_seqs) /\ seq \notin Batch
  /\ \A s \in Request :
       /\ s \in Range(waiting) <=> Waits(s)
       /\ s \in Range(swapped) <=> status[s] = "swapped"
       /\ (s \in Range(running) \/ Taken(s)) <=> Owned(s)
       /\ ~(s \in Range(running) /\ Taken(s))

\* Steps after which everything is where it was.
LEMMA QueueQuiet ==
  ASSUME QueueInv, UNCHANGED <<waiting, running, swapped, status>>,
         \/ UNCHANGED <<op, cur>>
         \/ op \notin {"deallocate", "swap_out"} /\ op' \notin {"deallocate", "swap_out"},
         \/ UNCHANGED <<phase, scheduled_seqs, seq>>
         \/ phase # "decode" /\ phase' # "decode"
  PROVE  QueueInv'
<1>1. \A s \in Request : /\ Releasing(s)' = Releasing(s)
                         /\ (op' = "swap_out" /\ cur' = s) = (op = "swap_out" /\ cur = s)
                         /\ Taken(s)' = Taken(s)
  BY DEF Releasing, Taken, Batch
<1>2. \A s \in Request : Waits(s)' = Waits(s) /\ Owned(s)' = Owned(s)
  BY <1>1 DEF Waits, Owned
<1>3. phase' = "decode" => IsInjective(scheduled_seqs') /\ seq' \notin Batch'
  BY DEF QueueInv, Batch
<1> QED
  BY <1>1, <1>2, <1>3 DEF QueueInv

(***************************************************************************)
(* Steps that leave the queues and the statuses alone.                     *)
(***************************************************************************)
LEMMA QuietStepQueue ==
  ASSUME ClientInv, PlaceInv, QueueInv,
         \/ Schedule \/ ResumePrefill \/ ResumeEnd \/ Admit \/ AdmitEnd \/ SwapIn \/ Decode
         \/ Run \/ Record \/ RecordEnd \/ PostSkip \/ (\E t \in Token : PostAppend(t))
         \/ PostContinue \/ PostEnd \/ AllDone \/ UNCHANGED allVars
  PROVE  QueueInv'
<1>1. UNCHANGED <<waiting, running, swapped, status>>
  BY DEF Schedule, ResumePrefill, ResumeEnd, Admit, BeginAllocate, AdmitEnd, SwapIn, BeginSwapIn,
         Decode, CopyOnWrite, Run, Record, RecordComputed, RecordEnd, PostSkip, PostAppend,
         append_token, PostContinue, PostEnd, AllDone, allVars, schedulerVars, queueVars, vars,
         seqVars
<1>2. \/ UNCHANGED <<op, cur>>
      \/ op \notin {"deallocate", "swap_out"} /\ op' \notin {"deallocate", "swap_out"}
  BY DEF Schedule, ResumePrefill, ResumeEnd, Admit, BeginAllocate, AdmitEnd, SwapIn, BeginSwapIn,
         Decode, CopyOnWrite, Run, Record, RecordComputed, RecordEnd, PostSkip, PostAppend,
         append_token, PostContinue, PostEnd, AllDone, allVars, vars, callVars, Idle, Call
<1>3. \/ UNCHANGED <<phase, scheduled_seqs, seq>>
      \/ phase # "decode" /\ phase' # "decode"
  BY DEF Schedule, BetweenSteps, ResumePrefill, ResumeEnd, Admit, AdmitEnd, SwapIn, Decode, Run,
         Record, RecordEnd, PostSkip, PostAppend, Postprocessing, PostContinue, PostEnd, AllDone,
         allVars, schedulerVars, batchVars, Goto
<1> QED
  BY <1>1, <1>2, <1>3, QueueQuiet

\* A request joins waiting.
LEMMA AddQueue ==
  ASSUME ClientInv, PlaceInv, QueueInv, NEW r \in Request, Add(r)
  PROVE  QueueInv'
<1>1. /\ op = "idle" /\ UNCHANGED <<op, cur, phase, running, swapped, scheduled_seqs, seq>>
      /\ waiting' = Append(waiting, r) /\ status[r] = "absent"
      /\ status' = [status EXCEPT ![r] = "waiting"] /\ phase = "idle"
  BY DEF Add, NewSequence, BetweenSteps, Idle, callVars, batchVars
<1>2. /\ waiting \in Seq(Request)
      /\ status \in [Request -> {"absent", "waiting", "running", "swapped", "finished"}]
  BY DEF ClientInv, QueueType, TypeInv, TypeOK
<1>3. r \notin Range(waiting)
  BY <1>1 DEF QueueInv, Waits
<1>4. IsInjective(waiting') /\ Range(waiting') = Range(waiting) \cup {r}
  BY <1>1, <1>2, <1>3, AppendRange DEF QueueInv
<1>5. \A s \in Request \ {r} : status'[s] = status[s]
  BY <1>1, <1>2
<1>6. status'[r] = "waiting"
  BY <1>1, <1>2
<1> QED
  BY <1>1, <1>4, <1>5, <1>6 DEF QueueInv, Waits, Taken, Owned, Releasing, Batch

\* A sequence moves from waiting to running.
LEMMA AdmitStepQueue ==
  ASSUME ClientInv, PlaceInv, QueueInv, AdmitStep
  PROVE  QueueInv'
<1>1. /\ op = "allocate" /\ phase = "admit" /\ phase' = phase
      /\ \/ UNCHANGED <<op, cur, status>>
         \/ op' = "idle" /\ status' = [status EXCEPT ![cur] = "running"]
  BY DEF AdmitStep, AllocateStep, AllocateMiss, AllocateShared, AllocateRevived, AddToTable,
         Return, Call, PlaceInv, CallPlace
<1>2. CASE op' # "idle"
  <2>1. UNCHANGED <<waiting, running, swapped, status>>
    BY <1>1, <1>2 DEF AdmitStep, queueVars
  <2> QED
    BY <1>1, <1>2, <2>1, QueueQuiet
<1>3. CASE op' = "idle"
  <2>1. PICK r \in Request : r = cur /\ r = Head(waiting) /\ waiting # <<>>
    BY <1>1, EndsType DEF ClientInv, QueueType, PlaceInv, CallPlace
  <2>2. /\ waiting \in Seq(Request) /\ running \in Seq(Request)
        /\ status \in [Request -> {"absent", "waiting", "running", "swapped", "finished"}]
    BY DEF ClientInv, QueueType, TypeInv, TypeOK
  <2>3. /\ waiting' = Tail(waiting) /\ running' = Append(running, r) /\ UNCHANGED swapped
        /\ status' = [status EXCEPT ![r] = "running"]
    BY <1>1, <1>3, <2>1 DEF AdmitStep
  <2>4. /\ r \in Range(waiting)
        /\ IsInjective(waiting') /\ Range(waiting') = Range(waiting) \ {r}
    BY <2>1, <2>2, <2>3, TailRange DEF QueueInv
  <2>5. status[r] = "waiting" /\ ~Owned(r)
    BY <2>1, <2>4 DEF QueueInv, Waits, Owned
  <2>6. IsInjective(running') /\ Range(running') = Range(running) \cup {r}
    BY <2>1, <2>2, <2>3, <2>5, AppendRange DEF QueueInv
  <2>7. \A s \in Request \ {r} : status'[s] = status[s]
    BY <2>2, <2>3
  <2>8. status'[r] = "running"
    BY <2>2, <2>3
  <2> QED
    BY <1>1, <1>3, <2>3, <2>4, <2>5, <2>6, <2>7, <2>8
    DEF QueueInv, Waits, Taken, Owned, Releasing, Batch
<1> QED
  BY <1>2, <1>3

\* A sequence moves from swapped to running.
LEMMA SwapInIterationQueue ==
  ASSUME ClientInv, PlaceInv, QueueInv, SwapInIteration
  PROVE  QueueInv'
<1>1. /\ op = "swap_in" /\ phase = "swap_in" /\ phase' = phase
      /\ \/ UNCHANGED <<op, cur, status>>
         \/ op' = "idle" /\ status' = [status EXCEPT ![cur] = "running"]
  BY DEF SwapInIteration, SwapInStep, Return, Call, PlaceInv, CallPlace
<1>2. CASE op' # "idle"
  <2>1. UNCHANGED <<waiting, running, swapped, status>>
    BY <1>1, <1>2 DEF SwapInIteration, queueVars
  <2> QED
    BY <1>1, <1>2, <2>1, QueueQuiet
<1>3. CASE op' = "idle"
  <2>1. PICK r \in Request : r = cur /\ r = Head(swapped) /\ swapped # <<>>
    BY <1>1, EndsType DEF ClientInv, QueueType, PlaceInv, CallPlace
  <2>2. /\ swapped \in Seq(Request) /\ running \in Seq(Request)
        /\ status \in [Request -> {"absent", "waiting", "running", "swapped", "finished"}]
    BY DEF ClientInv, QueueType, TypeInv, TypeOK
  <2>3. /\ swapped' = Tail(swapped) /\ running' = Append(running, r) /\ UNCHANGED waiting
        /\ status' = [status EXCEPT ![r] = "running"]
    BY <1>1, <1>3, <2>1 DEF SwapInIteration
  <2>4. /\ r \in Range(swapped)
        /\ IsInjective(swapped') /\ Range(swapped') = Range(swapped) \ {r}
    BY <2>1, <2>2, <2>3, TailRange DEF QueueInv
  <2>5. status[r] = "swapped" /\ ~Owned(r)
    BY <2>1, <2>4 DEF QueueInv, Owned
  <2>6. IsInjective(running') /\ Range(running') = Range(running) \cup {r}
    BY <2>1, <2>2, <2>3, <2>5, AppendRange DEF QueueInv
  <2>7. \A s \in Request \ {r} : status'[s] = status[s]
    BY <2>2, <2>3
  <2>8. status'[r] = "running"
    BY <2>2, <2>3
  <2> QED
    BY <1>1, <1>3, <2>3, <2>4, <2>5, <2>6, <2>7, <2>8
    DEF QueueInv, Waits, Taken, Owned, Releasing, Batch
<1> QED
  BY <1>2, <1>3

\* The decode loop begins with an empty batch and may end with one.
LEMMA DecodeBordersQueue ==
  ASSUME ClientInv, PlaceInv, QueueInv, SwapInEnd \/ NothingScheduled
  PROVE  QueueInv'
<1>1. /\ UNCHANGED <<waiting, running, swapped, status, op, cur>>
      /\ scheduled_seqs = <<>> /\ seq = NoRequest /\ UNCHANGED <<scheduled_seqs, seq>>
  BY DEF SwapInEnd, NothingScheduled, DecodeLoopDone, PlaceInv, SeqPlace, queueVars, batchVars,
         vars, seqVars, callVars
<1>2. Batch = {} /\ Batch' = {} /\ IsInjective(<<>>)
  BY <1>1 DEF Batch, Range, IsInjective
<1>3. \A s \in Request : ~Taken(s) /\ ~Taken(s)'
  BY <1>1, <1>2, BlockManagerAssumption DEF Taken
<1>4. \A s \in Request : Waits(s)' = Waits(s) /\ Owned(s)' = Owned(s)
  BY <1>1 DEF Waits, Owned, Releasing
<1> QED
  BY <1>1, <1>2, <1>3, <1>4 DEF QueueInv

\* A sequence moves from running to seq.
LEMMA PickDecodeQueue ==
  ASSUME ClientInv, PlaceInv, QueueInv, PickDecode
  PROVE  QueueInv'
<1>1. /\ UNCHANGED <<waiting, swapped, status, op, cur, phase, scheduled_seqs>>
      /\ phase = "decode" /\ seq = NoRequest /\ running # <<>>
      /\ seq' = Head(running) /\ running' = Tail(running)
  BY DEF PickDecode, batchVars, vars, seqVars, callVars
<1>2. running \in Seq(Request)
  BY DEF ClientInv, QueueType
<1>3. PICK r \in Request : r = Head(running)
  BY <1>1, <1>2, EndsType
<1>4. r \in Range(running) /\ IsInjective(running') /\ Range(running') = Range(running) \ {r}
  BY <1>1, <1>2, <1>3, TailRange DEF QueueInv
<1>5. r \notin Batch
  BY <1>1, <1>4 DEF QueueInv, Taken
<1>6. \A s \in Request : Waits(s)' = Waits(s) /\ Owned(s)' = Owned(s)
  BY <1>1 DEF Waits, Owned, Releasing
<1>7. Batch' = Batch
  BY <1>1 DEF Batch
<1>8. \A s \in Request : /\ Taken(s) <=> s \in Batch
                         /\ Taken(s)' <=> s \in Batch \/ s = r
  BY <1>1, <1>3, <1>7, BlockManagerAssumption DEF Taken
<1> QED
  BY <1>1, <1>3, <1>4, <1>5, <1>6, <1>7, <1>8 DEF QueueInv

\* A sequence leaves running, or seq, for the CPU or for waiting.
LEMMA EvictQueue ==
  ASSUME ClientInv, PlaceInv, QueueInv, Evict
  PROVE  QueueInv'
<1>1. /\ UNCHANGED <<waiting, swapped, phase, scheduled_seqs>>
      /\ phase = "decode" /\ seq \in Request /\ op = "idle"
  BY DEF Evict, Deciding, Idle, batchVars, ClientInv, QueueType
<1>2. /\ running \in Seq(Request)
      /\ status \in [Request -> {"absent", "waiting", "running", "swapped", "finished"}]
  BY DEF ClientInv, QueueType, TypeInv, TypeOK
<1>3. \E v \in Request :
        /\ Preempt(v)
        /\ \/ /\ running # <<>> /\ v = Last(running)
              /\ running' = Front(running) /\ seq' = seq
           \/ /\ running = <<>> /\ v = seq /\ seq' = NoRequest /\ running' = running
  BY <1>1, <1>2, EndsType DEF Evict
<1>4. PICK v \in Request :
        /\ Preempt(v)
        /\ \/ /\ running # <<>> /\ v = Last(running)
              /\ running' = Front(running) /\ seq' = seq
           \/ /\ running = <<>> /\ v = seq /\ seq' = NoRequest /\ running' = running
  BY <1>3
<1>5. status[v] = "running" /\ cur' = v
      /\ \/ op' = "swap_out" /\ status' = status
         \/ op' = "deallocate" /\ status' = [status EXCEPT ![v] = "waiting"]
  BY <1>4 DEF Preempt, Call
<1>6. Batch' = Batch
  BY <1>1 DEF Batch
<1>7. \A s \in Request \ {v} : status'[s] = status[s]
  BY <1>2, <1>5
<1>8. /\ op' = "swap_out" => status'[v] = "running"
      /\ op' = "deallocate" => status'[v] = "waiting"
      /\ op' \in {"swap_out", "deallocate"}
  BY <1>2, <1>5
<1>9. /\ ~Owned(v)' /\ ~Waits(v)' /\ status'[v] # "swapped"
      /\ \A s \in Request \ {v} : Waits(s)' = Waits(s) /\ Owned(s)' = Owned(s)
  BY <1>1, <1>5, <1>7, <1>8 DEF Waits, Owned, Releasing
<1>10. /\ Owned(v) /\ ~Waits(v)
  BY <1>1, <1>5 DEF Waits, Owned, Releasing
<1>11. CASE running # <<>> /\ v = Last(running) /\ running' = Front(running) /\ seq' = seq
  <2>1. v \in Range(running) /\ IsInjective(running') /\ Range(running') = Range(running) \ {v}
    BY <1>2, <1>11, FrontRange DEF QueueInv
  <2>2. \A s \in Request : Taken(s)' = Taken(s)
    BY <1>1, <1>6, <1>11 DEF Taken
  <2>3. ~Taken(v)
    BY <2>1 DEF QueueInv
  <2> QED
    BY <1>1, <1>5, <1>6, <1>7, <1>9, <1>10, <1>11, <2>1, <2>2, <2>3 DEF QueueInv
<1>12. CASE running = <<>> /\ v = seq /\ seq' = NoRequest /\ running' = running
  <2>1. v \notin Batch
    BY <1>1, <1>12 DEF QueueInv
  <2>2. Range(running) = {}
    BY <1>12 DEF Range
  <2>3. \A s \in Request : /\ Taken(s) <=> s \in Batch \/ s = v
                           /\ Taken(s)' <=> s \in Batch
    BY <1>1, <1>6, <1>12, BlockManagerAssumption DEF Taken
  <2>4. NoRequest \notin Batch
    BY BlockManagerAssumption DEF Batch, Range, ClientInv, QueueType
  <2> QED
    BY <1>1, <1>5, <1>6, <1>7, <1>9, <1>10, <1>12, <2>1, <2>2, <2>3, <2>4 DEF QueueInv
<1> QED
  BY <1>4, <1>11, <1>12

\* The evicted sequence arrives in swapped.
LEMMA EvictSwapStepQueue ==
  ASSUME ClientInv, PlaceInv, QueueInv, EvictSwapStep
  PROVE  QueueInv'
<1>1. /\ op = "swap_out" /\ UNCHANGED <<waiting, running, phase, scheduled_seqs, seq>>
      /\ \/ UNCHANGED <<op, cur, status>>
         \/ op' = "idle" /\ status' = [status EXCEPT ![cur] = "swapped"]
  BY DEF EvictSwapStep, SwapOutStep, Return, Call, batchVars, callVars
<1>2. CASE op' # "idle"
  <2>1. UNCHANGED <<waiting, running, swapped, status>>
    BY <1>1, <1>2 DEF EvictSwapStep
  <2> QED
    BY <1>1, <1>2, <2>1, QueueQuiet
<1>3. CASE op' = "idle"
  <2>1. PICK r \in Request : r = cur
    BY <1>1, BlockManagerAssumption DEF ClientInv, TypeInv, TypeOK
  <2>2. /\ swapped \in Seq(Request)
        /\ status \in [Request -> {"absent", "waiting", "running", "swapped", "finished"}]
        /\ status[r] = "running"
    BY <1>1, <2>1 DEF ClientInv, QueueType, TypeInv, TypeOK, MethodHasRoom
  <2>3. /\ swapped' = Append(swapped, r)
        /\ status' = [status EXCEPT ![r] = "swapped"]
    BY <1>1, <1>3, <2>1 DEF EvictSwapStep
  <2>4. r \notin Range(swapped) /\ ~Owned(r) /\ ~Waits(r)
    BY <1>1, <2>1, <2>2 DEF QueueInv, Owned, Waits, Releasing
  <2>5. IsInjective(swapped') /\ Range(swapped') = Range(swapped) \cup {r}
    BY <2>2, <2>3, <2>4, AppendRange DEF QueueInv
  <2>6. \A s \in Request \ {r} : status'[s] = status[s]
    BY <2>2, <2>3
  <2>7. status'[r] = "swapped"
    BY <2>2, <2>3
  <2>8. /\ ~Owned(r)' /\ ~Waits(r)'
        /\ \A s \in Request \ {r} : Waits(s)' = Waits(s) /\ Owned(s)' = Owned(s)
    BY <1>1, <1>3, <2>1, <2>6, <2>7 DEF Waits, Owned, Releasing
  <2>9. Batch' = Batch /\ \A s \in Request : Taken(s)' = Taken(s)
    BY <1>1 DEF Taken, Batch
  <2> QED
    BY <1>1, <2>4, <2>5, <2>6, <2>7, <2>8, <2>9 DEF QueueInv
<1> QED
  BY <1>2, <1>3

\* The evicted sequence arrives at the head of waiting.
LEMMA EvictDropStepQueue ==
  ASSUME ClientInv, PlaceInv, QueueInv, EvictDropStep
  PROVE  QueueInv'
<1>1. /\ op = "deallocate" /\ phase = "decode"
      /\ UNCHANGED <<running, swapped, phase, scheduled_seqs, seq, status>>
      /\ UNCHANGED <<op, cur>> \/ op' = "idle"
  BY DEF EvictDropStep, DeallocateStep, Return, Call, batchVars, callVars, seqVars
<1>2. CASE op' # "idle"
  <2>1. UNCHANGED <<waiting, running, swapped, status>>
    BY <1>1, <1>2 DEF EvictDropStep
  <2> QED
    BY <1>1, <1>2, <2>1, QueueQuiet
<1>3. CASE op' = "idle"
  <2>1. PICK r \in Request : r = cur
    BY <1>1, BlockManagerAssumption DEF ClientInv, TypeInv, TypeOK
  <2>2. waiting \in Seq(Request) /\ status[r] = "waiting"
    BY <1>1, <2>1 DEF ClientInv, QueueType, PlaceInv, CallPlace
  <2>3. waiting' = <<r>> \o waiting
    BY <1>3, <2>1 DEF EvictDropStep, Requeue
  <2>4. r \notin Range(waiting)
    BY <1>1, <2>1 DEF QueueInv, Waits, Releasing
  <2>5. IsInjective(waiting') /\ Range(waiting') = Range(waiting) \cup {r}
    <3>1. <<r>> \in Seq(Request) /\ Range(<<r>>) = {r} /\ IsInjective(<<r>>)
      BY DEF Range, IsInjective
    <3>2. Range(<<r>>) \cap Range(waiting) = {}
      BY <2>4, <3>1
    <3>3. waiting \in Seq(Request) /\ IsInjective(waiting)
      BY <2>2 DEF QueueInv
    <3>4. PICK one : one = <<r>>
      OBVIOUS
    <3>5. /\ one \in Seq(Request) /\ IsInjective(one) /\ Range(one) = {r}
          /\ Range(one) \cap Range(waiting) = {}
      BY <3>1, <3>2, <3>4
    <3>6. /\ IsInjective(one \o waiting)
          /\ Range(one \o waiting) = Range(one) \cup Range(waiting)
      BY <3>3, <3>5, ConcatRange
    <3> QED
      BY <2>3, <3>4, <3>5, <3>6
  <2>6. Waits(r)' /\ \A s \in Request \ {r} : Waits(s)' = Waits(s)
    BY <1>1, <1>3, <2>1, <2>2 DEF Waits, Releasing
  <2>7. \A s \in Request : Owned(s)' = Owned(s)
    BY <1>1, <1>3, <2>1, <2>2 DEF Owned, Releasing
  <2>8. Batch' = Batch /\ \A s \in Request : Taken(s)' = Taken(s)
    BY <1>1 DEF Taken, Batch
  <2> QED
    BY <1>1, <2>4, <2>5, <2>6, <2>7, <2>8 DEF QueueInv
<1> QED
  BY <1>2, <1>3

\* seq joins the batch.
LEMMA DecodeStepQueue ==
  ASSUME ClientInv, PlaceInv, QueueInv, DecodeStep
  PROVE  QueueInv'
<1>1. /\ op = "may_append" /\ phase = "decode" /\ cur = seq
      /\ UNCHANGED <<waiting, running, swapped, phase, status>>
      /\ UNCHANGED <<op, cur>> \/ op' = "idle"
  BY DEF DecodeStep, AppendStep, AppendNewBlock, AppendFillsBlock, AppendInside, AppendRaises,
         AppendDone, Appending, Raise, Return, Call, callVars, seqVars, queueVars, PlaceInv,
         CallPlace
<1>2. CASE op' # "idle"
  <2>1. UNCHANGED <<scheduled_seqs, seq>>
    BY <1>1, <1>2 DEF DecodeStep
  <2> QED
    BY <1>1, <1>2, <2>1, QueueQuiet
<1>3. CASE op' = "idle"
  <2>1. PICK r \in Request : r = seq
    BY <1>1, BlockManagerAssumption DEF ClientInv, TypeInv, TypeOK
  <2>2. /\ scheduled_seqs \in Seq(Request)
        /\ scheduled_seqs' = Append(scheduled_seqs, r) /\ seq' = NoRequest
    BY <1>1, <1>3, <2>1 DEF ClientInv, QueueType, DecodeStep
  <2>3. r \notin Range(scheduled_seqs) /\ IsInjective(scheduled_seqs)
    BY <1>1, <2>1 DEF QueueInv, Batch
  <2>4. IsInjective(scheduled_seqs') /\ Range(scheduled_seqs') = Range(scheduled_seqs) \cup {r}
    BY <2>2, <2>3, AppendRange
  <2>5. Batch' = Batch \cup {r}
    BY <2>4 DEF Batch
  <2>6. NoRequest \notin Batch'
    <3>1. Batch \subseteq Request
      BY <2>2 DEF Batch, Range
    <3> QED
      BY <2>5, <3>1, BlockManagerAssumption
  <2>7. \A s \in Request : Taken(s)' <=> Taken(s)
    BY <1>1, <2>1, <2>2, <2>5, BlockManagerAssumption DEF Taken
  <2>8. \A s \in Request : Waits(s)' = Waits(s) /\ Owned(s)' = Owned(s)
    BY <1>1, <1>3 DEF Waits, Owned, Releasing
  <2> QED
    BY <1>1, <2>2, <2>4, <2>6, <2>7, <2>8 DEF QueueInv
<1> QED
  BY <1>2, <1>3

\* The batch goes back to the head of running.
LEMMA DecodeEndQueue ==
  ASSUME ClientInv, PlaceInv, QueueInv, DecodeEnd
  PROVE  QueueInv'
<1>1. /\ UNCHANGED <<waiting, swapped, status, op, cur>>
      /\ phase = "decode" /\ phase' = "run" /\ seq = NoRequest
      /\ running' = scheduled_seqs \o running
  BY DEF DecodeEnd, DecodeLoopDone, PutBack, Goto, vars, seqVars, callVars
<1>2. scheduled_seqs \in Seq(Request) /\ running \in Seq(Request)
  BY DEF ClientInv, QueueType
<1>3. \A s \in Request : Taken(s) <=> s \in Range(scheduled_seqs)
  BY <1>1, BlockManagerAssumption DEF Taken, Batch
<1>4. Range(scheduled_seqs) \cap Range(running) = {}
  <2>1. Range(scheduled_seqs) \subseteq Request
    BY <1>2 DEF Range
  <2> QED
    BY <1>3, <2>1 DEF QueueInv
<1>5. IsInjective(scheduled_seqs) /\ IsInjective(running)
  BY <1>1 DEF QueueInv
<1>6. IsInjective(running') /\ Range(running') = Range(scheduled_seqs) \cup Range(running)
  BY <1>1, <1>2, <1>4, <1>5, ConcatRange
<1>7. \A s \in Request : Waits(s)' = Waits(s) /\ Owned(s)' = Owned(s)
  BY <1>1 DEF Waits, Owned, Releasing
<1>8. \A s \in Request : ~Taken(s)'
  BY <1>1 DEF Taken
<1> QED
  BY <1>1, <1>3, <1>6, <1>7, <1>8 DEF QueueInv

\* A finished sequence stays in running until its blocks are released.
LEMMA PostFinishQueue ==
  ASSUME ClientInv, PlaceInv, QueueInv, PostFinish
  PROVE  QueueInv'
<1>1. PICK r \in Request : r = seq
  BY DEF PostFinish, ClientInv, QueueType
<1>2. /\ UNCHANGED <<waiting, running, swapped, phase, scheduled_seqs, seq>>
      /\ phase = "postprocess" /\ op = "idle" /\ op' = "deallocate" /\ cur' = r
      /\ status[r] = "running" /\ status' = [status EXCEPT ![r] = "finished"]
  BY <1>1 DEF PostFinish, Postprocessing, Idle, BeginFinish, Call, schedulerVars, queueVars,
              batchVars
<1>3. status \in [Request -> {"absent", "waiting", "running", "swapped", "finished"}]
  BY DEF ClientInv, TypeInv, TypeOK
<1>4. status'[r] = "finished" /\ \A s \in Request \ {r} : status'[s] = status[s]
  BY <1>2, <1>3
<1>5. \A s \in Request : Waits(s)' = Waits(s) /\ Owned(s)' = Owned(s)
  BY <1>2, <1>4 DEF Waits, Owned, Releasing
<1>6. \A s \in Request : (status'[s] = "swapped") = (status[s] = "swapped")
  BY <1>2, <1>4
<1>7. \A s \in Request : Taken(s)' = Taken(s)
  BY <1>2 DEF Taken
<1> QED
  BY <1>2, <1>5, <1>6, <1>7 DEF QueueInv

\* The finished sequence leaves running.
LEMMA PostFinishStepQueue ==
  ASSUME ClientInv, PlaceInv, QueueInv, PostFinishStep
  PROVE  QueueInv'
<1>1. /\ op = "deallocate" /\ phase = "postprocess"
      /\ UNCHANGED <<waiting, swapped, phase, scheduled_seqs, status>>
      /\ UNCHANGED <<op, cur>> \/ op' = "idle"
      /\ cur = seq /\ status[cur] = "finished"
  BY DEF PostFinishStep, DeallocateStep, Return, Call, batchVars, callVars, seqVars, PlaceInv,
         CallPlace
<1>2. CASE op' # "idle"
  <2>1. UNCHANGED <<waiting, running, swapped, status, seq>>
    BY <1>1, <1>2 DEF PostFinishStep
  <2> QED
    BY <1>1, <1>2, <2>1, QueueQuiet
<1>3. CASE op' = "idle"
  <2>1. PICK r \in Request : r = cur
    BY <1>1, BlockManagerAssumption DEF ClientInv, TypeInv, TypeOK
  <2>2. running \in Seq(Request) /\ running' = RemoveFirst(running, r)
    BY <1>1, <1>3, <2>1 DEF ClientInv, QueueType, PostFinishStep, Unlist
  <2>3. \A s \in Request : ~Taken(s) /\ ~Taken(s)'
    BY <1>1 DEF Taken
  <2>4. r \in Range(running)
    BY <1>1, <2>1, <2>3 DEF QueueInv, Owned, Releasing
  <2>5. IsInjective(running') /\ Range(running') = Range(running) \ {r}
    BY <2>2, <2>4, RemoveFirstRange DEF QueueInv
  <2>6. ~Owned(r)' /\ \A s \in Request \ {r} : Owned(s)' = Owned(s)
    BY <1>1, <1>3, <2>1 DEF Owned, Releasing
  <2>7. \A s \in Request : Waits(s)' = Waits(s)
    BY <1>1, <1>3, <2>1 DEF Waits, Releasing
  <2> QED
    BY <1>1, <2>3, <2>5, <2>6, <2>7 DEF QueueInv
<1> QED
  BY <1>2, <1>3

LEMMA QueueStep ==
  ASSUME ClientInv, PlaceInv, QueueInv, [SchedulerNext]_allVars
  PROVE  QueueInv'
BY QuietStepQueue, AddQueue, AdmitStepQueue, SwapInIterationQueue, DecodeBordersQueue,
   PickDecodeQueue, EvictQueue, EvictSwapStepQueue, EvictDropStepQueue, DecodeStepQueue,
   DecodeEndQueue, PostFinishQueue, PostFinishStepQueue
DEF SchedulerNext, EngineStep

LEMMA QueueInvariant == SchedulerSpec => []QueueInv
<1>1. SchedulerInit => QueueInv
  <2> SUFFICES ASSUME SchedulerInit PROVE QueueInv
    OBVIOUS
  <2>1. Range(<<>>) = {} /\ IsInjective(<<>>)
    BY DEF Range, IsInjective
  <2>2. /\ waiting = <<>> /\ running = <<>> /\ swapped = <<>> /\ phase = "idle"
        /\ \A s \in Request : status[s] = "absent"
    BY DEF SchedulerInit, Init
  <2> QED
    BY <2>1, <2>2 DEF QueueInv, Waits, Taken, Owned
<1>2. ClientInv /\ PlaceInv /\ QueueInv /\ [SchedulerNext]_allVars => QueueInv'
  BY QueueStep
<1> QED
  BY <1>1, <1>2, ClientInvariant, PlaceInvariant, PTL DEF SchedulerSpec

(***************************************************************************)
(* Between methods a request is in the queue its status names, once, and   *)
(* in no other, through any mix of admission, eviction, swapping and       *)
(* completion.                                                             *)
(***************************************************************************)
THEOREM QueuesAlwaysMatch == SchedulerSpec => []QueuesMatchStatus
<1>1. ClientInv /\ QueueInv => QueuesMatchStatus
  <2> SUFFICES ASSUME ClientInv, QueueInv, op = "idle"
               PROVE  /\ HoldsOnly(waiting, WithStatus("waiting"))
                      /\ HoldsOnly(TakenFromRunning \o running, WithStatus("running"))
                      /\ HoldsOnly(swapped, WithStatus("swapped"))
    BY DEF QueuesMatchStatus
  <2>1. /\ waiting \in Seq(Request) /\ running \in Seq(Request) /\ swapped \in Seq(Request)
        /\ scheduled_seqs \in Seq(Request) /\ seq \in Request \cup {NoRequest}
    BY DEF ClientInv, QueueType
  <2>2. /\ Range(waiting) \subseteq Request /\ Range(running) \subseteq Request
        /\ Range(swapped) \subseteq Request /\ Range(scheduled_seqs) \subseteq Request
    BY <2>1 DEF Range
  <2>3. /\ TakenFromRunning \in Seq(Request) /\ IsInjective(TakenFromRunning)
        /\ \A s \in Request : s \in Range(TakenFromRunning) <=> Taken(s)
    <3>1. CASE phase # "decode"
      <4>1. TakenFromRunning = <<>>
        BY <3>1 DEF TakenFromRunning
      <4>2. <<>> \in Seq(Request) /\ IsInjective(<<>>) /\ Range(<<>>) = {}
        BY EmptySeq DEF IsInjective, Range
      <4> QED
        BY <3>1, <4>1, <4>2 DEF Taken
    <3>2. CASE phase = "decode" /\ seq = NoRequest
      <4>1. TakenFromRunning = scheduled_seqs
        BY <3>2 DEF TakenFromRunning
      <4> QED
        BY <2>1, <3>2, <4>1, BlockManagerAssumption DEF Taken, Batch, QueueInv
    <3>3. CASE phase = "decode" /\ seq # NoRequest
      <4>1. TakenFromRunning = Append(scheduled_seqs, seq)
        BY <3>3 DEF TakenFromRunning
      <4>2. seq \in Request /\ seq \notin Range(scheduled_seqs) /\ IsInjective(scheduled_seqs)
        BY <2>1, <3>3 DEF QueueInv, Batch
      <4>3. /\ IsInjective(TakenFromRunning)
            /\ Range(TakenFromRunning) = Range(scheduled_seqs) \cup {seq}
        BY <2>1, <4>1, <4>2, AppendRange
      <4>4. TakenFromRunning \in Seq(Request)
        BY <2>1, <4>1, <4>2
      <4> QED
        BY <3>3, <4>3, <4>4 DEF Taken, Batch
    <3> QED
      BY <3>1, <3>2, <3>3
  <2>4. Range(TakenFromRunning) \subseteq Request
    BY <2>3 DEF Range
  <2>5. Range(TakenFromRunning) \cap Range(running) = {}
    BY <2>3, <2>4 DEF QueueInv
  <2>6. IsInjective(running)
    BY DEF QueueInv
  <2>7. /\ IsInjective(TakenFromRunning \o running)
        /\ Range(TakenFromRunning \o running) = Range(TakenFromRunning) \cup Range(running)
    BY <2>1, <2>3, <2>5, <2>6, ConcatRange
  <2>8. \A s \in Request : /\ s \in Range(waiting) <=> status[s] = "waiting"
                           /\ s \in Range(swapped) <=> status[s] = "swapped"
                           /\ (s \in Range(running) \/ Taken(s)) <=> status[s] = "running"
    BY DEF QueueInv, Waits, Owned, Releasing
  <2>9. Range(TakenFromRunning \o running) = {s \in Request : status[s] = "running"}
    BY <2>2, <2>3, <2>4, <2>7, <2>8
  <2>10. /\ Range(waiting) = {s \in Request : status[s] = "waiting"}
         /\ Range(swapped) = {s \in Request : status[s] = "swapped"}
    BY <2>2, <2>8
  <2> QED
    BY <2>7, <2>9, <2>10 DEF HoldsOnly, WithStatus, QueueInv
<1> QED
  BY <1>1, ClientInvariant, QueueInvariant, PTL

-----------------------------------------------------------------------------
(* At the end everything is free.                                          *)

\* A sequence without repetition is as long as the set of its elements.
LEMMA InjectiveLength ==
  ASSUME NEW S, NEW s \in Seq(S), IsInjective(s)
  PROVE  IsFiniteSet(Range(s)) /\ Cardinality(Range(s)) = Len(s)
<1>1. PICK n \in Nat : n = Len(s)
  BY LenProperties
<1>2. DOMAIN s = 1 .. n /\ s \in [1 .. n -> S]
  BY <1>1, LenProperties, ElementOfSeq
<1>3. s \in [1 .. n -> Range(s)]
  BY <1>2 DEF Range
<1>4. \A e \in Range(s) : \E i \in 1 .. n : s[i] = e
  BY <1>2 DEF Range
<1>5. s \in Bijection(1 .. n, Range(s))
  BY <1>3, <1>4 DEF Bijection, Injection, Surjection
<1>6. ExistsBijection(1 .. n, Range(s))
  BY <1>5 DEF ExistsBijection
<1>7. Cardinality(Range(s)) = n
  BY <1>6, FS_CountingElements
<1>8. IsFiniteSet(Range(s))
  <2>1. IsFiniteSet(1 .. n)
    BY FS_Interval
  <2> QED
    BY <1>6, <2>1, FS_Bijection
<1> QED
  BY <1>1, <1>7, <1>8

(***************************************************************************)
(* Without waiting, running and swapped sequences no page table is left.   *)
(***************************************************************************)
LEMMA NoTablesLeft ==
  ASSUME ClientInv, PlaceInv, QueueInv, phase = "idle", is_finished
  PROVE  \A s \in Request : block_table[s] = <<>> /\ cpu_block_table[s] = <<>>
<1>1. op = "idle"
  BY DEF PlaceInv, CallPlace, ClientInv, TypeInv, TypeOK, Methods
<1>2. \A s \in Request : cur # s
  BY <1>1, BlockManagerAssumption DEF ClientInv, TypeInv, TypeOK
<1>3. Range(waiting) = {} /\ Range(running) = {} /\ Range(swapped) = {}
  BY DEF is_finished, Range
<1>4. \A s \in Request : status[s] \in {"absent", "finished"}
  <2>1. \A s \in Request : status[s] \notin {"waiting", "running", "swapped"}
    BY <1>1, <1>3 DEF QueueInv, Waits, Owned, Taken, Releasing
  <2> QED
    BY <2>1 DEF ClientInv, TypeInv, TypeOK
<1> QED
  BY <1>2, <1>4 DEF ClientInv, TypeInv, TablesFollowStatus

LEMMA AllFree ==
  ASSUME ClientInv, PlaceInv, QueueInv, PoolInv, CpuInv
  PROVE  NothingLeaks
<1> SUFFICES ASSUME phase = "idle", is_finished
             PROVE  Len(free_block_ids) = NumKvBlocks /\ Len(cpu_free_block_ids) = NumCpuBlocks
  BY DEF NothingLeaks
<1>1. \A s \in Request : block_table[s] = <<>> /\ cpu_block_table[s] = <<>>
  BY NoTablesLeft
<1>2. \A s \in Request : Held(s) = {} /\ HeldCpu(s) = {}
  <2>1. DOMAIN <<>> = {}
    OBVIOUS
  <2> QED
    BY <1>1, <2>1 DEF Held, HeldCpu
<1>3. Range(free_block_ids) = BlockId
  <2>1. ASSUME NEW b \in BlockId PROVE b \notin used_block_ids
    <3>1. References(b) = {}
      BY <1>2 DEF References
    <3>2. ref_count[b] = 0
      BY <3>1, FS_EmptySet DEF PoolInv, RefInv, RefCountExact
    <3> QED
      BY <3>2 DEF PoolInv, PoolPartition
  <2> QED
    BY <2>1 DEF PoolInv, PoolPartition
<1>4. Range(cpu_free_block_ids) = CpuBlockId
  <2>1. \A b \in CpuBlockId : ~CpuOwned(b)
    BY <1>2 DEF CpuOwned
  <2>2. Range(cpu_free_block_ids) \subseteq CpuBlockId
    BY DEF Range, ClientInv, TypeInv, TypeOK
  <2> QED
    BY <2>1, <2>2 DEF CpuInv
<1>5. /\ free_block_ids \in Seq(BlockId) /\ IsInjective(free_block_ids)
      /\ cpu_free_block_ids \in Seq(CpuBlockId) /\ IsInjective(cpu_free_block_ids)
  BY DEF ClientInv, TypeInv, TypeOK, PoolInv, PoolPartition, CpuInv
<1>6. Cardinality(BlockId) = NumKvBlocks /\ Cardinality(CpuBlockId) = NumCpuBlocks
  <2>1. \A n \in Nat : Cardinality(0 .. n - 1) = n
    <3> SUFFICES ASSUME NEW n \in Nat PROVE Cardinality(0 .. n - 1) = n
      OBVIOUS
    <3>1. n - 1 \in Int /\ 0 \in Int
      OBVIOUS
    <3>2. Cardinality(0 .. n - 1) = IF 0 > n - 1 THEN 0 ELSE (n - 1) - 0 + 1
      BY <3>1, FS_Interval
    <3> QED
      BY <3>2
  <2> QED
    BY <2>1, BlockManagerAssumption DEF BlockId, CpuBlockId
<1> QED
  BY <1>3, <1>4, <1>5, <1>6, InjectiveLength

(***************************************************************************)
(* When the last request is finished all GPU and CPU blocks are free: no   *)
(* path through eviction, swapping and completion keeps one.               *)
(***************************************************************************)
THEOREM NothingEverLeaks == SchedulerSpec => []NothingLeaks
<1>1. SchedulerSpec => Spec
  BY BlockManagerImplemented DEF ImplementsBlockManager
<1>2. ClientInv /\ PlaceInv /\ QueueInv /\ PoolInv /\ CpuInv => NothingLeaks
  BY AllFree
<1> QED
  BY <1>1, <1>2, ClientInvariant, PlaceInvariant, QueueInvariant, PoolInvariant, CpuInvariant, PTL

-----------------------------------------------------------------------------
(* The batch.                                                              *)

\* A running sequence waits for the slot of its last token ...
Awaits(s) == ~placed[s] /\ (EnableChunkedPrefill => is_prefill_finished(s))

\* ... or has only a part of its prompt computed ...
Partial(s) == placed[s] /\ EnableChunkedPrefill /\ ~is_prefill_finished(s)

\* ... or is in the batch that is being put together, run or postprocessed.
InFlight == IF phase = "postprocess" THEN Range(todo) ELSE Batch

Resting(s) == status[s] = "running" /\ s \notin InFlight

AllAwait == \A s \in Request : Resting(s) => Awaits(s)

\* What is true of the sequences, wherever the engine is.
FlightInv ==
  /\ \A s \in Request :
       /\ Resting(s) => Awaits(s) \/ Partial(s)
       /\ status[s] = "swapped" => Awaits(s)
       /\ s \in InFlight => status[s] = "running" /\ placed[s]
  /\ IsInjective(scheduled_seqs)

(***************************************************************************)
(* The loop that resumes prefills leaves no partial prompt behind unless   *)
(* the budget is spent, in which case nothing is admitted and the batch is *)
(* not empty; so the decode branch meets no partial prompt.                *)
(***************************************************************************)
ResumeInv ==
  /\ phase = "resume" =>
       /\ IsInjective(todo)
       /\ \A s \in Range(todo) : status[s] = "running" /\ s \notin Batch
       /\ \A s \in Request : Resting(s) => Awaits(s) \/ s \in Range(todo)
  /\ phase = "admit" => AllAwait \/ num_batched_tokens >= MaxNumBatchedTokens
  /\ phase \in {"resume", "admit"} /\ scheduled_seqs = <<>> /\ op = "idle" =>
       num_batched_tokens = 0
  /\ op = "allocate" => AllAwait
  /\ phase \in {"swap_in", "decode"} => AllAwait

\* What later phases know of the batch.
BatchInv ==
  /\ phase = "run" => scheduled_seqs # <<>>
  /\ phase = "record" => Range(todo) \subseteq Batch
  /\ phase = "postprocess" => IsInjective(todo)
  /\ phase = "decode" \/ (phase \in {"run", "postprocess"} /\ ~is_prefill) =>
       \A s \in InFlight : EnableChunkedPrefill => is_prefill_finished(s)

PlacedInv == FlightInv /\ ResumeInv /\ BatchInv

\* How far a sequence is depends on these three fields.
LEMMA SameProgress ==
  ASSUME UNCHANGED <<placed, num_computed_tokens, num_prompt_tokens>>
  PROVE  \A s : /\ Awaits(s)' = Awaits(s) /\ Partial(s)' = Partial(s)
                /\ is_prefill_finished(s)' = is_prefill_finished(s)
BY DEF Awaits, Partial, is_prefill_finished

\* Without chunked prefill no prompt is partial.
LEMMA UnchunkedAwait ==
  ASSUME FlightInv, ~EnableChunkedPrefill
  PROVE  AllAwait
BY DEF FlightInv, AllAwait, Partial

(***************************************************************************)
(* Steps outside the prefill branch that leave sequences and batch alone.  *)
(***************************************************************************)
LEMMA PlacedQuiet ==
  ASSUME PlacedInv,
         UNCHANGED <<status, placed, num_computed_tokens, num_prompt_tokens, phase,
                     scheduled_seqs, is_prefill, todo, num_batched_tokens>>,
         op' # "allocate", op' = op \/ phase \notin {"resume", "admit"}
  PROVE  PlacedInv'
<1>1. \A s : /\ Awaits(s)' = Awaits(s) /\ Partial(s)' = Partial(s)
             /\ is_prefill_finished(s)' = is_prefill_finished(s)
  BY SameProgress
<1>2. InFlight' = InFlight /\ Batch' = Batch
  BY DEF InFlight, Batch
<1>3. \A s : Resting(s)' = Resting(s)
  BY <1>2 DEF Resting
<1>4. FlightInv'
  BY <1>1, <1>2, <1>3 DEF PlacedInv, FlightInv
<1>5. AllAwait' = AllAwait
  BY <1>1, <1>3 DEF AllAwait
<1>6. ResumeInv'
  BY <1>1, <1>2, <1>3, <1>5 DEF PlacedInv, ResumeInv
<1>7. BatchInv'
  BY <1>1, <1>2 DEF PlacedInv, BatchInv
<1> QED
  BY <1>4, <1>6, <1>7 DEF PlacedInv

LEMMA QuietStepPlaced ==
  ASSUME ClientInv, PlaceInv, PlacedInv,
         \/ SwapIn \/ PickDecode \/ Decode \/ PostContinue \/ AllDone \/ UNCHANGED allVars
  PROVE  PlacedInv'
<1>1. CASE SwapIn \/ PickDecode \/ Decode \/ PostContinue
  <2>1. UNCHANGED <<status, placed, num_computed_tokens, num_prompt_tokens, phase,
                    scheduled_seqs, is_prefill, todo, num_batched_tokens>>
    BY <1>1 DEF SwapIn, BeginSwapIn, PickDecode, Decode, CopyOnWrite, PostContinue, vars, seqVars,
                schedulerVars, batchVars
  <2>2. op' # "allocate" /\ phase \notin {"resume", "admit"}
    BY <1>1 DEF SwapIn, BeginSwapIn, PickDecode, Decode, Deciding, CopyOnWrite, PostContinue,
                Postprocessing, vars, callVars, Idle, Call
  <2> QED
    BY <2>1, <2>2, PlacedQuiet
<1>2. CASE AllDone \/ UNCHANGED allVars
  <2>1. UNCHANGED <<status, placed, num_computed_tokens, num_prompt_tokens, phase,
                    scheduled_seqs, is_prefill, todo, num_batched_tokens, op>>
    BY <1>2 DEF AllDone, allVars, vars, seqVars, callVars, schedulerVars, batchVars
  <2>2. CASE op' # "allocate"
    BY <2>1, <2>2, PlacedQuiet
  <2>3. CASE op = "allocate"
    <3>1. \A s : /\ Awaits(s)' = Awaits(s) /\ Partial(s)' = Partial(s)
                 /\ is_prefill_finished(s)' = is_prefill_finished(s)
      BY <2>1, SameProgress
    <3>2. InFlight' = InFlight /\ Batch' = Batch /\ phase = "admit"
      BY <2>1, <2>3 DEF InFlight, Batch, PlaceInv, CallPlace
    <3>3. \A s : Resting(s)' = Resting(s)
      BY <2>1, <3>2 DEF Resting
    <3> QED
      BY <2>1, <3>1, <3>2, <3>3 DEF PlacedInv, FlightInv, ResumeInv, BatchInv, AllAwait
  <2> QED
    BY <2>1, <2>2, <2>3
<1> QED
  BY <1>1, <1>2

LEMMA AddPlaced ==
  ASSUME ClientInv, PlaceInv, PlacedInv, NEW r \in Request, Add(r)
  PROVE  PlacedInv'
<1>1. /\ phase = "idle" /\ phase' = phase /\ op' = "idle" /\ scheduled_seqs = <<>>
      /\ UNCHANGED <<placed, num_computed_tokens, scheduled_seqs>>
      /\ status[r] = "absent" /\ status' = [status EXCEPT ![r] = "waiting"]
  BY DEF Add, NewSequence, BetweenSteps, Idle, callVars, batchVars, PlaceInv, SeqPlace
<1>2. status \in [Request -> {"absent", "waiting", "running", "swapped", "finished"}]
      /\ num_prompt_tokens \in [Request -> Nat]
  BY DEF ClientInv, TypeInv, TypeOK
<1>3. status'[r] = "waiting" /\ \A s \in Request \ {r} : status'[s] = status[s]
  BY <1>1, <1>2
<1>4. \A s \in Request \ {r} : num_prompt_tokens'[s] = num_prompt_tokens[s]
  BY <1>2 DEF Add, NewSequence
<1>5. \A s \in Request \ {r} : Awaits(s)' = Awaits(s) /\ Partial(s)' = Partial(s)
  BY <1>1, <1>4 DEF Awaits, Partial, is_prefill_finished
<1>6. InFlight = {} /\ InFlight' = {}
  BY <1>1 DEF InFlight, Batch, Range
<1>7. FlightInv'
  BY <1>1, <1>3, <1>5, <1>6 DEF PlacedInv, FlightInv, Resting
<1> QED
  BY <1>1, <1>7 DEF PlacedInv, ResumeInv, BatchInv

\* The prefills under way are looked at first; without chunks there are none.
LEMMA SchedulePlaced ==
  ASSUME ClientInv, PlaceInv, QueueInv, PlacedInv, Schedule
  PROVE  PlacedInv'
<1>1. /\ phase = "idle" /\ op = "idle" /\ op' = op
      /\ UNCHANGED <<status, placed, num_computed_tokens, num_prompt_tokens>>
      /\ scheduled_seqs = <<>> /\ scheduled_seqs' = <<>> /\ num_batched_tokens' = 0
      /\ \/ phase' = "resume" /\ todo' = running
         \/ phase' = "admit" /\ ~EnableChunkedPrefill
  BY DEF Schedule, BetweenSteps, Idle, vars, seqVars, callVars, Goto, PlaceInv, SeqPlace
<1>2. InFlight = {} /\ InFlight' = {} /\ Batch' = {}
  BY <1>1 DEF InFlight, Batch, Range
<1>3. \A s : Awaits(s)' = Awaits(s) /\ Partial(s)' = Partial(s)
  BY <1>1, SameProgress
<1>4. FlightInv'
  BY <1>1, <1>2, <1>3 DEF PlacedInv, FlightInv, Resting
<1>5. Range(running) \subseteq Request
  BY DEF ClientInv, QueueType, Range
<1>6. \A s \in Request : s \in Range(running) <=> status[s] = "running"
  BY <1>1 DEF QueueInv, Owned, Taken, Releasing
<1>7. ResumeInv'
  <2>1. CASE phase' = "resume" /\ todo' = running
    <3>1. \A s \in Range(todo)' : status'[s] = "running"
      BY <1>1, <1>5, <1>6, <2>1
    <3>2. \A s \in Request : Resting(s)' => s \in Range(todo)'
      BY <1>1, <1>6, <2>1 DEF Resting
    <3> QED
      BY <1>1, <1>2, <2>1, <3>1, <3>2 DEF ResumeInv, QueueInv
  <2>2. CASE phase' = "admit" /\ ~EnableChunkedPrefill
    <3>1. AllAwait'
      BY <1>4, <2>2 DEF FlightInv, AllAwait, Partial
    <3> QED
      BY <1>1, <2>2, <3>1 DEF ResumeInv
  <2> QED
    BY <1>1, <2>1, <2>2
<1> QED
  BY <1>1, <1>4, <1>7 DEF PlacedInv, BatchInv

\* One prefill under way is continued, or the budget is spent.
LEMMA ResumePlaced ==
  ASSUME ClientInv, PlaceInv, BudgetInv, PlacedInv, ResumePrefill
  PROVE  PlacedInv'
<1>1. /\ phase = "resume" /\ todo # <<>> /\ EnableChunkedPrefill
      /\ op = "idle" /\ op' = op
      /\ UNCHANGED <<status, placed, num_computed_tokens, num_prompt_tokens>>
  BY DEF ResumePrefill, vars, seqVars, callVars, PlaceInv, CallPlace, SeqPlace, ClientInv, TypeInv,
         TypeOK, Methods
<1>2. /\ todo \in Seq(Request) /\ scheduled_seqs \in Seq(Request)
  BY DEF ClientInv, QueueType
<1>3. PICK r \in Request : r = Head(todo)
  BY <1>1, <1>2, EndsType
<1>4. /\ r \in Range(todo) /\ IsInjective(Tail(todo))
      /\ Range(Tail(todo)) = Range(todo) \ {r}
  BY <1>1, <1>2, <1>3, TailRange DEF PlacedInv, ResumeInv
<1>5. status[r] = "running" /\ r \notin Batch /\ InFlight = Batch
  BY <1>1, <1>4 DEF PlacedInv, ResumeInv, InFlight
<1>6. Awaits(r) \/ Partial(r)
  BY <1>5 DEF PlacedInv, FlightInv, Resting
<1>7. \A s : Awaits(s)' = Awaits(s) /\ Partial(s)' = Partial(s)
  BY <1>1, SameProgress
<1>8. PICK chunk : chunk = Chunk(remaining_prefill_tokens(r))
  OBVIOUS
<1>9. CASE /\ is_prefill_finished(r)
           /\ todo' = Tail(todo)
           /\ UNCHANGED <<phase, scheduled_seqs, num_batched_tokens>>
  <2>1. Awaits(r)
    BY <1>6, <1>9 DEF Partial
  <2>2. Batch' = Batch /\ InFlight' = InFlight
    BY <1>1, <1>9 DEF Batch, InFlight
  <2>3. FlightInv'
    BY <1>1, <1>7, <1>9, <2>2 DEF PlacedInv, FlightInv, Resting
  <2>4. ResumeInv'
    BY <1>1, <1>4, <1>7, <1>9, <2>1, <2>2 DEF PlacedInv, ResumeInv, Resting
  <2> QED
    BY <1>1, <1>9, <2>3, <2>4 DEF PlacedInv, BatchInv
<1>10. CASE /\ ~is_prefill_finished(r)
            /\ chunk > 0
            /\ num_batched_tokens' = num_batched_tokens + chunk
            /\ scheduled_seqs' = Append(scheduled_seqs, r)
            /\ todo' = Tail(todo)
            /\ UNCHANGED phase
  <2>1. placed[r]
    BY <1>1, <1>6, <1>10 DEF Partial, Awaits
  <2>2. IsInjective(scheduled_seqs') /\ Range(scheduled_seqs') = Range(scheduled_seqs) \cup {r}
    BY <1>2, <1>5, <1>10, AppendRange DEF PlacedInv, FlightInv, Batch
  <2>3. Batch' = Batch \cup {r} /\ InFlight' = Batch'
    BY <1>1, <1>10, <2>2 DEF Batch, InFlight
  <2>4. FlightInv'
    BY <1>1, <1>5, <1>7, <1>10, <2>1, <2>2, <2>3 DEF PlacedInv, FlightInv, Resting
  <2>5. scheduled_seqs' # <<>>
    BY <1>2, <1>10, AppendProperties, EmptySeq
  <2>6. ResumeInv'
    BY <1>1, <1>4, <1>5, <1>7, <1>10, <2>3, <2>5 DEF PlacedInv, ResumeInv, Resting
  <2> QED
    BY <1>1, <1>10, <2>4, <2>6 DEF PlacedInv, BatchInv
<1>11. CASE /\ ~is_prefill_finished(r)
            /\ chunk <= 0
            /\ phase' = "admit"
            /\ UNCHANGED <<scheduled_seqs, num_batched_tokens>>
  <2>1. Batch' = Batch /\ InFlight' = InFlight
    BY <1>1, <1>11 DEF Batch, InFlight
  <2>2. FlightInv'
    BY <1>1, <1>7, <1>11, <2>1 DEF PlacedInv, FlightInv, Resting
  <2>3. num_batched_tokens >= MaxNumBatchedTokens
    <3>1. /\ num_computed_tokens[r] \in Nat /\ num_prompt_tokens[r] \in Nat
          /\ num_batched_tokens \in Int
      BY DEF ClientInv, QueueType, TypeInv, TypeOK
    <3>2. remaining_prefill_tokens(r) \in Int /\ remaining_prefill_tokens(r) > 0
      BY <1>11, <3>1 DEF remaining_prefill_tokens, is_prefill_finished
    <3> QED
      BY <1>8, <1>11, <3>1, <3>2, SchedulerAssumption DEF Chunk, Least
  <2>4. ResumeInv'
    BY <1>1, <1>11, <2>3 DEF PlacedInv, ResumeInv
  <2> QED
    BY <1>1, <1>11, <2>2, <2>4 DEF PlacedInv, BatchInv
<1> QED
  BY <1>3, <1>8, <1>9, <1>10, <1>11 DEF ResumePrefill, Goto

LEMMA ResumeEndPlaced ==
  ASSUME ClientInv, PlaceInv, PlacedInv, ResumeEnd
  PROVE  PlacedInv'
<1>1. /\ phase = "resume" /\ todo = <<>> /\ phase' = "admit" /\ op = "idle" /\ op' = op
      /\ UNCHANGED <<status, placed, num_computed_tokens, num_prompt_tokens, scheduled_seqs,
                     num_batched_tokens>>
  BY DEF ResumeEnd, Goto, vars, seqVars, callVars, batchVars, PlaceInv, CallPlace, ClientInv,
         TypeInv, TypeOK, Methods
<1>2. \A s : Awaits(s)' = Awaits(s) /\ Partial(s)' = Partial(s)
  BY <1>1, SameProgress
<1>3. Batch' = Batch /\ InFlight' = InFlight /\ Range(todo) = {}
  BY <1>1 DEF Batch, InFlight, Range
<1>4. FlightInv'
  BY <1>1, <1>2, <1>3 DEF PlacedInv, FlightInv, Resting
<1>5. AllAwait'
  BY <1>1, <1>2, <1>3 DEF PlacedInv, ResumeInv, AllAwait, Resting
<1> QED
  BY <1>1, <1>4, <1>5 DEF PlacedInv, ResumeInv, BatchInv

\* A budget that admits something is not spent.
LEMMA AdmitPlaced ==
  ASSUME ClientInv, PlaceInv, BudgetInv, PlacedInv, Admit
  PROVE  PlacedInv'
<1>1. /\ phase = "admit" /\ phase' = phase /\ op' = "allocate"
      /\ UNCHANGED <<status, placed, num_computed_tokens, num_prompt_tokens, scheduled_seqs>>
      /\ WithinBudget(Head(waiting))
  BY DEF Admit, Admissible, BeginAllocate, Call, seqVars
<1>2. \A s : Awaits(s)' = Awaits(s) /\ Partial(s)' = Partial(s)
  BY <1>1, SameProgress
<1>3. Batch' = Batch /\ InFlight' = InFlight
  BY <1>1 DEF Batch, InFlight
<1>4. FlightInv'
  BY <1>1, <1>2, <1>3 DEF PlacedInv, FlightInv, Resting
<1>5. AllAwait
  <2>1. CASE EnableChunkedPrefill
    <3>1. PICK r \in Request : r = Head(waiting)
      BY EndsType DEF Admit, Admissible, ClientInv, QueueType
    <3>2. PICK n \in Int : n = SeqLen(r) - num_cached_tokens[r]
      <4>1. TypeOK
        BY DEF ClientInv, TypeInv
      <4>2. SeqLen(r) \in Nat
        BY <4>1, SettledWithinLength
      <4>3. num_cached_tokens[r] \in Nat
        BY <4>1 DEF TypeOK
      <4> QED
        BY <4>2, <4>3
    <3>3. Chunk(n) > 0
      BY <1>1, <2>1, <3>1, <3>2 DEF WithinBudget
    <3>4. num_batched_tokens < MaxNumBatchedTokens
      BY <3>2, <3>3, SchedulerAssumption DEF Chunk, Least, BudgetInv
    <3> QED
      BY <1>1, <3>4, SchedulerAssumption DEF PlacedInv, ResumeInv, BudgetInv
  <2> QED
    BY <2>1, UnchunkedAwait DEF PlacedInv
<1>6. AllAwait'
  BY <1>1, <1>2, <1>3, <1>5 DEF AllAwait, Resting
<1> QED
  BY <1>1, <1>4, <1>6 DEF PlacedInv, ResumeInv, BatchInv

LEMMA AdmitStepPlaced ==
  ASSUME ClientInv, PlaceInv, PlacedInv, AdmitStep
  PROVE  PlacedInv'
<1>1. /\ op = "allocate" /\ phase = "admit" /\ phase' = phase
      /\ UNCHANGED <<num_computed_tokens, num_prompt_tokens>>
      /\ \/ UNCHANGED <<op, status, placed>>
         \/ /\ op' = "idle"
            /\ status' = [status EXCEPT ![cur] = "running"]
            /\ placed' = [placed EXCEPT ![cur] = TRUE]
  BY DEF AdmitStep, AllocateStep, AllocateMiss, AllocateShared, AllocateRevived, AddToTable,
         Return, Call, PlaceInv, CallPlace
<1>2. AllAwait
  BY <1>1 DEF PlacedInv, ResumeInv
<1>3. CASE op' # "idle"
  <2>1. UNCHANGED <<op, status, placed, scheduled_seqs>>
    BY <1>1, <1>3 DEF AdmitStep
  <2>2. \A s : Awaits(s)' = Awaits(s) /\ Partial(s)' = Partial(s)
    BY <1>1, <2>1, SameProgress
  <2>3. Batch' = Batch /\ InFlight' = InFlight
    BY <1>1, <2>1 DEF Batch, InFlight
  <2>4. FlightInv'
    BY <2>1, <2>2, <2>3 DEF PlacedInv, FlightInv, Resting
  <2>5. AllAwait'
    BY <1>2, <2>1, <2>2, <2>3 DEF AllAwait, Resting
  <2> QED
    BY <1>1, <1>3, <2>4, <2>5 DEF PlacedInv, ResumeInv, BatchInv
<1>4. CASE op' = "idle"
  <2>1. PICK r \in Request : r = cur
    BY <1>1, BlockManagerAssumption DEF ClientInv, TypeInv, TypeOK
  <2>2. /\ status[r] = "waiting"
        /\ status \in [Request -> {"absent", "waiting", "running", "swapped", "finished"}]
        /\ placed \in [Request -> BOOLEAN]
        /\ scheduled_seqs \in Seq(Request)
    BY <1>1, <2>1 DEF ClientInv, TypeInv, TypeOK, MethodHasRoom, QueueType
  <2>3. /\ status' = [status EXCEPT ![r] = "running"]
        /\ placed' = [placed EXCEPT ![r] = TRUE]
        /\ scheduled_seqs' = Append(scheduled_seqs, r)
    BY <1>1, <1>4, <2>1 DEF AdmitStep
  <2>4. /\ status'[r] = "running" /\ placed'[r]
        /\ \A s \in Request \ {r} : status'[s] = status[s]
    BY <2>2, <2>3
  <2>5. \A s \in Request \ {r} : placed'[s] = placed[s]
    BY <2>2, <2>3
  <2>6. \A s \in Request \ {r} : Awaits(s)' = Awaits(s) /\ Partial(s)' = Partial(s)
    BY <1>1, <2>5 DEF Awaits, Partial, is_prefill_finished
  <2>7. r \notin Batch /\ InFlight = Batch
    BY <1>1, <2>2 DEF PlacedInv, FlightInv, InFlight
  <2>8. IsInjective(scheduled_seqs') /\ Range(scheduled_seqs') = Range(scheduled_seqs) \cup {r}
    BY <2>2, <2>3, <2>7, AppendRange DEF PlacedInv, FlightInv, Batch
  <2>9. Batch' = Batch \cup {r} /\ InFlight' = Batch'
    BY <1>1, <2>8 DEF Batch, InFlight
  <2>10. FlightInv'
    <3>1. \A s \in Request : Resting(s)' => Resting(s) /\ s # r
      BY <2>4, <2>7, <2>9 DEF Resting
    <3>2. \A s \in Request : Resting(s)' => Awaits(s)' \/ Partial(s)'
      BY <2>6, <3>1 DEF PlacedInv, FlightInv
    <3>3. \A s \in Request : status'[s] = "swapped" => Awaits(s)'
      BY <2>4, <2>6 DEF PlacedInv, FlightInv
    <3>4. \A s \in Request : s \in InFlight' => status'[s] = "running" /\ placed'[s]
      BY <2>4, <2>5, <2>7, <2>9 DEF PlacedInv, FlightInv
    <3> QED
      BY <2>8, <3>2, <3>3, <3>4 DEF FlightInv
  <2>11. AllAwait'
    BY <1>2, <2>4, <2>6, <2>7, <2>9 DEF AllAwait, Resting
  <2>12. scheduled_seqs' # <<>>
    BY <2>2, <2>3, AppendProperties, EmptySeq
  <2> QED
    BY <1>1, <1>4, <2>10, <2>11, <2>12 DEF PlacedInv, ResumeInv, BatchInv
<1> QED
  BY <1>3, <1>4

\* An empty batch means that nothing was counted, so no prompt is partial.
LEMMA AdmitEndPlaced ==
  ASSUME ClientInv, PlaceInv, PlacedInv, AdmitEnd
  PROVE  PlacedInv'
<1>1. /\ phase = "admit" /\ op = "idle" /\ op' = op
      /\ UNCHANGED <<status, placed, num_computed_tokens, num_prompt_tokens, scheduled_seqs>>
      /\ \/ scheduled_seqs # <<>> /\ is_prefill' = TRUE /\ phase' = "run"
         \/ scheduled_seqs = <<>> /\ phase' = "swap_in"
  BY DEF AdmitEnd, Idle, Goto, vars, seqVars, callVars
<1>2. \A s : Awaits(s)' = Awaits(s) /\ Partial(s)' = Partial(s)
  BY <1>1, SameProgress
<1>3. Batch' = Batch /\ InFlight' = InFlight
  BY <1>1 DEF Batch, InFlight
<1>4. FlightInv'
  BY <1>1, <1>2, <1>3 DEF PlacedInv, FlightInv, Resting
<1>5. phase' = "swap_in" => AllAwait'
  <2> SUFFICES ASSUME phase' = "swap_in" PROVE AllAwait'
    OBVIOUS
  <2>1. num_batched_tokens = 0
    BY <1>1 DEF PlacedInv, ResumeInv
  <2>2. AllAwait
    BY <1>1, <2>1, SchedulerAssumption DEF PlacedInv, ResumeInv
  <2> QED
    BY <1>1, <1>2, <1>3, <2>2 DEF AllAwait, Resting
<1> QED
  BY <1>1, <1>4, <1>5 DEF PlacedInv, ResumeInv, BatchInv

\* A sequence that comes back from the CPU waits for the slot it was evicted for.
LEMMA SwapInIterationPlaced ==
  ASSUME ClientInv, PlaceInv, PlacedInv, SwapInIteration
  PROVE  PlacedInv'
<1>1. /\ op = "swap_in" /\ phase = "swap_in" /\ phase' = phase /\ op' # "allocate"
      /\ UNCHANGED <<placed, num_computed_tokens, num_prompt_tokens, scheduled_seqs, is_prefill,
                     todo>>
      /\ UNCHANGED status \/ status' = [status EXCEPT ![cur] = "running"]
  BY DEF SwapInIteration, SwapInStep, Return, Call, PlaceInv, CallPlace, batchVars
<1>2. PICK r \in Request : r = cur
  BY <1>1, BlockManagerAssumption DEF ClientInv, TypeInv, TypeOK
<1>3. status[r] = "swapped"
      /\ status \in [Request -> {"absent", "waiting", "running", "swapped", "finished"}]
  BY <1>1, <1>2 DEF ClientInv, TypeInv, TypeOK, MethodHasRoom
<1>4. \A s \in Request : status'[s] # status[s] => s = r /\ status'[s] = "running"
  BY <1>1, <1>2, <1>3
<1>5. \A s : Awaits(s)' = Awaits(s) /\ Partial(s)' = Partial(s)
  BY <1>1, SameProgress
<1>6. Batch' = Batch /\ InFlight' = InFlight
  BY <1>1 DEF Batch, InFlight
<1>7. Awaits(r)
  BY <1>3 DEF PlacedInv, FlightInv
<1>8. FlightInv'
  BY <1>1, <1>4, <1>5, <1>6, <1>7 DEF PlacedInv, FlightInv, Resting
<1>9. AllAwait'
  BY <1>1, <1>4, <1>5, <1>6, <1>7 DEF PlacedInv, ResumeInv, AllAwait, Resting
<1> QED
  BY <1>1, <1>8, <1>9 DEF PlacedInv, ResumeInv, BatchInv

LEMMA DecodeBordersPlaced ==
  ASSUME ClientInv, PlaceInv, PlacedInv, SwapInEnd \/ NothingScheduled
  PROVE  PlacedInv'
<1>1. /\ op' = "idle"
      /\ \/ phase = "swap_in" /\ phase' = "decode"
         \/ phase = "decode" /\ phase' = "nothing scheduled"
      /\ UNCHANGED <<status, placed, num_computed_tokens, num_prompt_tokens, scheduled_seqs,
                     is_prefill>>
      /\ scheduled_seqs = <<>>
  BY DEF SwapInEnd, NothingScheduled, DecodeLoopDone, Idle, Goto, vars, seqVars, callVars,
         batchVars, PlaceInv, SeqPlace
<1>2. \A s : Awaits(s)' = Awaits(s) /\ Partial(s)' = Partial(s)
  BY <1>1, SameProgress
<1>3. InFlight = {} /\ InFlight' = {}
  <2>1. scheduled_seqs = <<>> /\ scheduled_seqs' = scheduled_seqs
    BY <1>1
  <2>2. Batch = {}
    BY <2>1 DEF Batch, Range
  <2>3. Batch' = Batch
    BY <2>1 DEF Batch
  <2>4. phase # "postprocess" /\ phase' # "postprocess"
    BY <1>1
  <2> QED
    BY <2>2, <2>3, <2>4 DEF InFlight
<1>4. FlightInv' /\ AllAwait'
  BY <1>1, <1>2, <1>3 DEF PlacedInv, FlightInv, ResumeInv, AllAwait, Resting
<1> QED
  BY <1>1, <1>3, <1>4 DEF PlacedInv, ResumeInv, BatchInv

\* Eviction takes nothing from the batch.
LEMMA EvictPlaced ==
  ASSUME ClientInv, PlaceInv, QueueInv, PlacedInv, Evict
  PROVE  PlacedInv'
<1>1. /\ phase = "decode" /\ phase' = phase
      /\ UNCHANGED <<placed, num_computed_tokens, num_prompt_tokens, scheduled_seqs, is_prefill,
                     num_batched_tokens, todo>>
      /\ seq \in Request
  BY DEF Evict, Deciding, Preempt, batchVars, ClientInv, QueueType
<1>2. \E v \in Request : Preempt(v) /\ v \notin Batch
  <2>1. CASE running # <<>> /\ Preempt(Last(running))
    <3>1. Last(running) \in Request /\ Last(running) \in Range(running)
      BY <2>1, EndsType, FrontRange DEF ClientInv, QueueType, QueueInv
    <3>2. Last(running) \notin Batch
      BY <1>1, <3>1 DEF QueueInv, Taken
    <3> QED
      BY <2>1, <3>1, <3>2
  <2>2. CASE Preempt(seq)
    BY <1>1, <2>2 DEF QueueInv
  <2> QED
    BY <2>1, <2>2 DEF Evict
<1>3. PICK v \in Request : Preempt(v) /\ v \notin Batch
  BY <1>2
<1>4. /\ op' # "allocate"
      /\ UNCHANGED status \/ status' = [status EXCEPT ![v] = "waiting"]
  BY <1>3 DEF Preempt, Call
<1>5. \A s \in Request : status'[s] # status[s] => s = v /\ status'[s] = "waiting"
  BY <1>4 DEF ClientInv, TypeInv, TypeOK
<1>6. \A s : Awaits(s)' = Awaits(s) /\ Partial(s)' = Partial(s)
             /\ is_prefill_finished(s)' = is_prefill_finished(s)
  BY <1>1, SameProgress
<1>7. Batch' = Batch /\ InFlight' = Batch /\ InFlight = Batch
  BY <1>1 DEF Batch, InFlight
<1>8. FlightInv'
  BY <1>1, <1>3, <1>5, <1>6, <1>7 DEF PlacedInv, FlightInv, Resting
<1>9. AllAwait'
  BY <1>1, <1>5, <1>6, <1>7 DEF PlacedInv, ResumeInv, AllAwait, Resting
<1> QED
  BY <1>1, <1>4, <1>6, <1>7, <1>8, <1>9 DEF PlacedInv, ResumeInv, BatchInv

\* The evicted sequence was not in the batch, so it awaits its slot.
LEMMA EvictSwapStepPlaced ==
  ASSUME ClientInv, PlaceInv, QueueInv, PlacedInv, EvictSwapStep
  PROVE  PlacedInv'
<1>1. /\ op = "swap_out" /\ phase = "decode" /\ phase' = phase /\ op' # "allocate"
      /\ UNCHANGED <<placed, num_computed_tokens, num_prompt_tokens, scheduled_seqs, is_prefill>>
      /\ UNCHANGED status \/ status' = [status EXCEPT ![cur] = "swapped"]
  BY DEF EvictSwapStep, SwapOutStep, Return, Call, callVars, PlaceInv, CallPlace, batchVars
<1>2. PICK r \in Request : r = cur
  BY <1>1, BlockManagerAssumption DEF ClientInv, TypeInv, TypeOK
<1>3. status[r] = "running"
      /\ status \in [Request -> {"absent", "waiting", "running", "swapped", "finished"}]
  BY <1>1, <1>2 DEF ClientInv, TypeInv, TypeOK, MethodHasRoom
<1>4. \A s \in Request : status'[s] # status[s] => s = r /\ status'[s] = "swapped"
  BY <1>1, <1>2, <1>3
<1>5. \A s : Awaits(s)' = Awaits(s) /\ Partial(s)' = Partial(s)
             /\ is_prefill_finished(s)' = is_prefill_finished(s)
  BY <1>1, SameProgress
<1>6. Batch' = Batch /\ InFlight' = Batch /\ InFlight = Batch
  BY <1>1 DEF Batch, InFlight
<1>7. r \notin Batch
  <2>1. ~Owned(r)
    BY <1>1, <1>2, <1>3 DEF Owned, Releasing
  <2> QED
    BY <1>1, <2>1 DEF QueueInv, Taken
<1>8. Awaits(r)
  BY <1>1, <1>3, <1>6, <1>7 DEF PlacedInv, ResumeInv, AllAwait, Resting
<1>9. FlightInv'
  BY <1>1, <1>4, <1>5, <1>6, <1>7, <1>8 DEF PlacedInv, FlightInv, Resting
<1>10. AllAwait'
  BY <1>1, <1>4, <1>5, <1>6 DEF PlacedInv, ResumeInv, AllAwait, Resting
<1> QED
  BY <1>1, <1>5, <1>6, <1>9, <1>10 DEF PlacedInv, ResumeInv, BatchInv

LEMMA DropStepPlaced ==
  ASSUME ClientInv, PlaceInv, PlacedInv, EvictDropStep \/ PostFinishStep
  PROVE  PlacedInv'
<1>1. UNCHANGED <<status, placed, num_computed_tokens, num_prompt_tokens, phase,
                  scheduled_seqs, is_prefill, todo, num_batched_tokens>>
  BY DEF EvictDropStep, PostFinishStep, DeallocateStep, seqVars, batchVars
<1>2. op' # "allocate" /\ phase \notin {"resume", "admit"}
  BY DEF EvictDropStep, PostFinishStep, DeallocateStep, Return, Call, callVars
<1> QED
  BY <1>1, <1>2, PlacedQuiet

\* seq has the slot it waited for and joins the batch.
LEMMA DecodeStepPlaced ==
  ASSUME ClientInv, PlaceInv, QueueInv, PlacedInv, DecodeStep
  PROVE  PlacedInv'
<1>1. /\ op = "may_append" /\ phase = "decode" /\ phase' = phase /\ cur = seq
      /\ op' \in {"may_append", "idle"}
      /\ UNCHANGED <<status, num_computed_tokens, num_prompt_tokens, is_prefill, todo,
                     num_batched_tokens>>
      /\ \/ op' = op /\ UNCHANGED placed
         \/ op' = "idle" /\ placed' = [placed EXCEPT ![cur] = TRUE]
  BY DEF DecodeStep, AppendStep, AppendNewBlock, AppendFillsBlock, AppendInside, AppendRaises,
         AppendDone, Appending, Raise, Return, Call, callVars, seqVars, PlaceInv, CallPlace
<1>2. CASE op' # "idle"
  <2>1. UNCHANGED <<placed, scheduled_seqs>>
    BY <1>1, <1>2 DEF DecodeStep
  <2>2. UNCHANGED <<status, placed, num_computed_tokens, num_prompt_tokens, phase,
                    scheduled_seqs, is_prefill, todo, num_batched_tokens>>
    BY <1>1, <2>1
  <2>3. op' # "allocate" /\ phase \notin {"resume", "admit"}
    BY <1>1
  <2> QED
    BY <2>2, <2>3, PlacedQuiet
<1>3. CASE op' = "idle"
  <2>1. PICK r \in Request : r = cur /\ r = seq
    BY <1>1, BlockManagerAssumption DEF ClientInv, TypeInv, TypeOK
  <2>2. /\ status[r] = "running"
        /\ placed \in [Request -> BOOLEAN]
        /\ scheduled_seqs \in Seq(Request)
    BY <1>1, <2>1 DEF ClientInv, TypeInv, TypeOK, MethodHasRoom, QueueType
  <2>3. /\ placed' = [placed EXCEPT ![r] = TRUE]
        /\ scheduled_seqs' = Append(scheduled_seqs, r)
    BY <1>1, <1>3, <2>1 DEF DecodeStep
  <2>4. placed'[r] /\ \A s \in Request \ {r} : placed'[s] = placed[s]
    BY <2>2, <2>3
  <2>5. \A s \in Request \ {r} : Awaits(s)' = Awaits(s) /\ Partial(s)' = Partial(s)
    BY <1>1, <2>4 DEF Awaits, Partial, is_prefill_finished
  <2>6. \A s : is_prefill_finished(s)' = is_prefill_finished(s)
    BY <1>1 DEF is_prefill_finished
  <2>7. r \notin Batch /\ InFlight = Batch
    BY <1>1, <2>1 DEF QueueInv, InFlight
  <2>8. Awaits(r)
    BY <1>1, <2>2, <2>7 DEF PlacedInv, ResumeInv, AllAwait, Resting
  <2>9. IsInjective(scheduled_seqs') /\ Range(scheduled_seqs') = Range(scheduled_seqs) \cup {r}
    BY <2>2, <2>3, <2>7, AppendRange DEF PlacedInv, FlightInv, Batch
  <2>10. Batch' = Batch \cup {r} /\ InFlight' = Batch'
    BY <1>1, <2>9 DEF Batch, InFlight
  <2>11. \A s \in Request : Resting(s)' => Resting(s) /\ s # r
    BY <1>1, <2>7, <2>10 DEF Resting
  <2>12. FlightInv'
    <3>1. \A s \in Request : Resting(s)' => Awaits(s)' \/ Partial(s)'
      BY <2>5, <2>11 DEF PlacedInv, FlightInv
    <3>2. \A s \in Request : status'[s] = "swapped" => Awaits(s)'
      BY <1>1, <2>2, <2>5 DEF PlacedInv, FlightInv
    <3>3. \A s \in Request : s \in InFlight' => status'[s] = "running" /\ placed'[s]
      BY <1>1, <2>2, <2>4, <2>7, <2>10 DEF PlacedInv, FlightInv
    <3> QED
      BY <2>9, <3>1, <3>2, <3>3 DEF FlightInv
  <2>13. AllAwait'
    BY <1>1, <2>5, <2>11 DEF PlacedInv, ResumeInv, AllAwait
  <2>14. \A s \in InFlight' : EnableChunkedPrefill => is_prefill_finished(s)'
    BY <1>1, <2>6, <2>7, <2>8, <2>10 DEF PlacedInv, BatchInv, Awaits
  <2> QED
    BY <1>1, <1>3, <2>12, <2>13, <2>14 DEF PlacedInv, ResumeInv, BatchInv
<1> QED
  BY <1>2, <1>3

LEMMA DecodeEndPlaced ==
  ASSUME ClientInv, PlaceInv, PlacedInv, DecodeEnd
  PROVE  PlacedInv'
<1>1. /\ phase = "decode" /\ phase' = "run" /\ op' = "idle"
      /\ UNCHANGED <<status, placed, num_computed_tokens, num_prompt_tokens, scheduled_seqs>>
      /\ scheduled_seqs # <<>>
  BY DEF DecodeEnd, DecodeLoopDone, Idle, Goto, vars, seqVars, callVars
<1>2. \A s : Awaits(s)' = Awaits(s) /\ Partial(s)' = Partial(s)
             /\ is_prefill_finished(s)' = is_prefill_finished(s)
  BY <1>1, SameProgress
<1>3. InFlight' = InFlight
  BY <1>1 DEF Batch, InFlight
<1>4. FlightInv'
  BY <1>1, <1>2, <1>3 DEF PlacedInv, FlightInv, Resting
<1> QED
  BY <1>1, <1>2, <1>3, <1>4 DEF PlacedInv, ResumeInv, BatchInv

LEMMA RunPlaced ==
  ASSUME ClientInv, PlaceInv, PlacedInv, Run
  PROVE  PlacedInv'
<1>1. /\ phase = "run" /\ op' = "idle"
      /\ UNCHANGED <<status, placed, num_computed_tokens, num_prompt_tokens, scheduled_seqs,
                     is_prefill>>
      /\ \/ phase' \in {"slots differ", "empty batch"}
         \/ phase' \in {"record", "postprocess"} /\ todo' = scheduled_seqs
  BY DEF Run, Idle, Goto, vars, seqVars, callVars, batchVars
<1>2. \A s : Awaits(s)' = Awaits(s) /\ Partial(s)' = Partial(s)
             /\ is_prefill_finished(s)' = is_prefill_finished(s)
  BY <1>1, SameProgress
<1>3. InFlight' = InFlight
  BY <1>1 DEF Batch, InFlight
<1>4. FlightInv'
  BY <1>1, <1>2, <1>3 DEF PlacedInv, FlightInv, Resting
<1>5. /\ phase' = "record" => Range(todo') \subseteq Batch'
      /\ phase' = "postprocess" => IsInjective(todo')
  BY <1>1 DEF Batch, PlacedInv, FlightInv
<1>6. phase' = "postprocess" /\ ~is_prefill' =>
        \A s \in InFlight' : EnableChunkedPrefill => is_prefill_finished(s)'
  BY <1>1, <1>2, <1>3 DEF PlacedInv, BatchInv
<1> QED
  BY <1>1, <1>4, <1>5, <1>6 DEF PlacedInv, ResumeInv, BatchInv

\* Only sequences of the batch are counted forward.
LEMMA RecordPlaced ==
  ASSUME ClientInv, PlaceInv, PlacedInv, Record
  PROVE  PlacedInv'
<1>1. /\ phase = "record" /\ phase' = phase /\ op' = "idle" /\ todo # <<>> /\ is_prefill
      /\ UNCHANGED <<status, placed, num_prompt_tokens, scheduled_seqs, is_prefill>>
      /\ todo' = Tail(todo)
  BY DEF Record, RecordComputed, Idle, seqVars, callVars, batchVars, PlaceInv, SeqPlace
<1>2. PICK r \in Request : r = Head(todo)
  BY <1>1, EndsType DEF ClientInv, QueueType
<1>3. todo \in Seq(Request) /\ num_computed_tokens \in [Request -> Nat]
  BY DEF ClientInv, QueueType
<1>4. /\ r \in Range(todo) /\ Range(todo') \subseteq Range(todo)
  <2>1. PICK n \in Nat \ {0} : n = Len(todo)
    BY <1>1, <1>3, EndsType
  <2>2. DOMAIN todo = 1 .. n /\ 1 \in 1 .. n /\ r = todo[1]
    BY <1>2, <1>3, <2>1, LenProperties
  <2>3. DOMAIN Tail(todo) = 1 .. n - 1 /\ \A i \in 1 .. n - 1 : Tail(todo)[i] = todo[i + 1]
    BY <1>1, <1>3, <2>1, HeadTailProperties, LenProperties
  <2>4. \A i \in 1 .. n - 1 : i + 1 \in 1 .. n
    OBVIOUS
  <2> QED
    BY <1>1, <2>2, <2>3, <2>4 DEF Range
<1>5. r \in Batch
  BY <1>1, <1>4 DEF PlacedInv, BatchInv
<1>6. \A s \in Request \ {r} : num_computed_tokens'[s] = num_computed_tokens[s]
  BY <1>2, <1>3 DEF Record
<1>7. \A s \in Request \ {r} : Awaits(s)' = Awaits(s) /\ Partial(s)' = Partial(s)
  BY <1>1, <1>6 DEF Awaits, Partial, is_prefill_finished
<1>8. Batch' = Batch /\ InFlight' = Batch /\ InFlight = Batch
  BY <1>1 DEF Batch, InFlight
<1>9. status[r] = "running"
  BY <1>5, <1>8 DEF PlacedInv, FlightInv
<1>10. FlightInv'
  BY <1>1, <1>5, <1>7, <1>8, <1>9 DEF PlacedInv, FlightInv, Resting
<1>11. Range(todo') \subseteq Batch'
  BY <1>1, <1>4, <1>8 DEF PlacedInv, BatchInv
<1> QED
  BY <1>1, <1>10, <1>11 DEF PlacedInv, ResumeInv, BatchInv

LEMMA RecordEndPlaced ==
  ASSUME ClientInv, PlaceInv, PlacedInv, RecordEnd
  PROVE  PlacedInv'
<1>1. /\ phase = "record" /\ phase' = "postprocess" /\ op' = "idle" /\ is_prefill
      /\ UNCHANGED <<status, placed, num_computed_tokens, num_prompt_tokens, scheduled_seqs,
                     is_prefill>>
      /\ todo' = scheduled_seqs
  BY DEF RecordEnd, vars, seqVars, callVars, batchVars, PlaceInv, SeqPlace, CallPlace, ClientInv,
         TypeInv, TypeOK, Methods
<1>2. \A s : Awaits(s)' = Awaits(s) /\ Partial(s)' = Partial(s)
  BY <1>1, SameProgress
<1>3. InFlight' = InFlight
  BY <1>1 DEF Batch, InFlight
<1>4. FlightInv'
  BY <1>1, <1>2, <1>3 DEF PlacedInv, FlightInv, Resting
<1> QED
  BY <1>1, <1>4 DEF PlacedInv, FlightInv, ResumeInv, BatchInv

(***************************************************************************)
(* A sequence leaves the batch with a sampled token that waits for a slot, *)
(* or with a part of its prompt still to compute.                          *)
(***************************************************************************)
LEMMA PostStepPlaced ==
  ASSUME ClientInv, PlaceInv, PlacedInv, PostSkip \/ \E t \in Token : PostAppend(t)
  PROVE  PlacedInv'
<1>1. /\ phase = "postprocess" /\ phase' = phase /\ op' = "idle" /\ todo # <<>>
      /\ UNCHANGED <<status, num_computed_tokens, num_prompt_tokens, scheduled_seqs, is_prefill>>
      /\ todo' = Tail(todo)
      /\ \/ NoToken(Head(todo)) /\ UNCHANGED placed
         \/ ~NoToken(Head(todo)) /\ placed' = [placed EXCEPT ![Head(todo)] = FALSE]
  BY DEF PostSkip, PostAppend, append_token, Postprocessing, Idle, vars, seqVars, callVars,
         batchVars
<1>2. todo \in Seq(Request) /\ placed \in [Request -> BOOLEAN]
  BY DEF ClientInv, QueueType, TypeInv, TypeOK
<1>3. PICK r \in Request : r = Head(todo)
  BY <1>1, <1>2, EndsType
<1>4. r \in Range(todo) /\ IsInjective(todo') /\ Range(todo') = Range(todo) \ {r}
  BY <1>1, <1>2, <1>3, TailRange DEF PlacedInv, BatchInv
<1>5. InFlight = Range(todo) /\ InFlight' = InFlight \ {r}
  BY <1>1, <1>4 DEF InFlight
<1>6. placed[r] /\ status[r] = "running"
  BY <1>4, <1>5 DEF PlacedInv, FlightInv
<1>7. \A s : is_prefill_finished(s)' = is_prefill_finished(s)
  BY <1>1 DEF is_prefill_finished
<1>8. \A s \in Request \ {r} : placed'[s] = placed[s]
  BY <1>1, <1>2, <1>3
<1>9. \A s \in Request \ {r} : Awaits(s)' = Awaits(s) /\ Partial(s)' = Partial(s)
  BY <1>7, <1>8 DEF Awaits, Partial
<1>10. Awaits(r)' \/ Partial(r)'
  <2>1. CASE NoToken(r) /\ UNCHANGED placed
    BY <1>6, <1>7, <2>1 DEF NoToken, ChunkedBatch, Partial
  <2>2. CASE ~NoToken(r) /\ placed' = [placed EXCEPT ![r] = FALSE]
    <3>1. ~placed'[r]
      BY <1>2, <2>2
    <3>2. EnableChunkedPrefill => is_prefill_finished(r)
      <4>1. CASE is_prefill
        BY <2>2, <4>1 DEF NoToken, ChunkedBatch
      <4>2. CASE ~is_prefill
        BY <1>1, <1>4, <1>5, <4>2 DEF PlacedInv, BatchInv
      <4> QED
        BY <4>1, <4>2
    <3> QED
      BY <1>7, <3>1, <3>2 DEF Awaits
  <2> QED
    BY <1>1, <1>3, <2>1, <2>2
<1>11. FlightInv'
  <2>1. \A s \in Request : Resting(s)' => s = r \/ Resting(s)
    BY <1>1, <1>5 DEF Resting
  <2>2. \A s \in Request : Resting(s)' => Awaits(s)' \/ Partial(s)'
    BY <1>9, <1>10, <2>1 DEF PlacedInv, FlightInv
  <2>3. \A s \in Request : status'[s] = "swapped" => Awaits(s)'
    BY <1>1, <1>6, <1>9 DEF PlacedInv, FlightInv
  <2>4. \A s \in Request : s \in InFlight' => status'[s] = "running" /\ placed'[s]
    BY <1>1, <1>5, <1>8 DEF PlacedInv, FlightInv
  <2> QED
    BY <1>1, <2>2, <2>3, <2>4 DEF PlacedInv, FlightInv
<1>12. ~is_prefill' => \A s \in InFlight' : EnableChunkedPrefill => is_prefill_finished(s)'
  BY <1>1, <1>5, <1>7 DEF PlacedInv, BatchInv
<1> QED
  BY <1>1, <1>4, <1>11, <1>12 DEF PlacedInv, ResumeInv, BatchInv

LEMMA PostFinishPlaced ==
  ASSUME ClientInv, PlaceInv, PlacedInv, PostFinish
  PROVE  PlacedInv'
<1>1. PICK r \in Request : r = seq
  BY DEF PostFinish, ClientInv, QueueType
<1>2. /\ phase = "postprocess" /\ phase' = phase /\ op' = "deallocate"
      /\ UNCHANGED <<placed, num_computed_tokens, num_prompt_tokens, scheduled_seqs, is_prefill,
                     todo>>
      /\ ~placed[r] /\ status' = [status EXCEPT ![r] = "finished"]
  BY <1>1 DEF PostFinish, Postprocessing, BeginFinish, Call, schedulerVars, batchVars
<1>3. \A s \in Request : status'[s] # status[s] => s = r /\ status'[s] = "finished"
  BY <1>2 DEF ClientInv, TypeInv, TypeOK
<1>4. \A s : Awaits(s)' = Awaits(s) /\ Partial(s)' = Partial(s)
             /\ is_prefill_finished(s)' = is_prefill_finished(s)
  BY <1>2, SameProgress
<1>5. InFlight' = InFlight /\ r \notin InFlight
  <2>1. InFlight' = InFlight
    BY <1>2 DEF InFlight, Batch
  <2> QED
    BY <1>2, <2>1 DEF PlacedInv, FlightInv
<1>6. FlightInv'
  BY <1>2, <1>3, <1>4, <1>5 DEF PlacedInv, FlightInv, Resting
<1> QED
  BY <1>2, <1>4, <1>5, <1>6 DEF PlacedInv, ResumeInv, BatchInv

LEMMA PostEndPlaced ==
  ASSUME ClientInv, PlaceInv, PlacedInv, PostEnd
  PROVE  PlacedInv'
<1>1. /\ phase = "postprocess" /\ phase' = "idle" /\ op' = "idle" /\ todo = <<>>
      /\ UNCHANGED <<status, placed, num_computed_tokens, num_prompt_tokens>>
      /\ scheduled_seqs' = <<>>
  BY DEF PostEnd, Postprocessing, Idle, Goto, vars, seqVars, callVars
<1>2. \A s : Awaits(s)' = Awaits(s) /\ Partial(s)' = Partial(s)
  BY <1>1, SameProgress
<1>3. InFlight = {} /\ InFlight' = {}
  BY <1>1 DEF InFlight, Batch, Range
<1>4. IsInjective(scheduled_seqs')
  BY <1>1 DEF IsInjective
<1>5. FlightInv'
  BY <1>1, <1>2, <1>3, <1>4 DEF PlacedInv, FlightInv, Resting
<1> QED
  BY <1>1, <1>5 DEF PlacedInv, ResumeInv, BatchInv

LEMMA PlacedStep ==
  ASSUME ClientInv, PlaceInv, QueueInv, BudgetInv, PlacedInv, [SchedulerNext]_allVars
  PROVE  PlacedInv'
BY QuietStepPlaced, AddPlaced, SchedulePlaced, ResumePlaced, ResumeEndPlaced, AdmitPlaced,
   AdmitStepPlaced, AdmitEndPlaced, SwapInIterationPlaced, DecodeBordersPlaced, EvictPlaced,
   EvictSwapStepPlaced, DropStepPlaced, DecodeStepPlaced, DecodeEndPlaced, RunPlaced,
   RecordPlaced, RecordEndPlaced, PostStepPlaced, PostFinishPlaced, PostEndPlaced
DEF SchedulerNext, EngineStep

LEMMA PlacedInvariant == SchedulerSpec => []PlacedInv
<1>1. SchedulerInit => PlacedInv
  <2> SUFFICES ASSUME SchedulerInit PROVE PlacedInv
    OBVIOUS
  <2>1. /\ phase = "idle" /\ scheduled_seqs = <<>> /\ op = "idle"
        /\ \A s \in Request : status[s] = "absent"
    BY DEF SchedulerInit, Init
  <2>2. InFlight = {} /\ IsInjective(scheduled_seqs)
    BY <2>1 DEF InFlight, Batch, Range, IsInjective
  <2> QED
    BY <2>1, <2>2 DEF PlacedInv, FlightInv, ResumeInv, BatchInv, Resting
<1>2. ClientInv /\ PlaceInv /\ QueueInv /\ BudgetInv /\ PlacedInv /\ [SchedulerNext]_allVars
        => PlacedInv'
  BY PlacedStep
<1> QED
  BY <1>1, <1>2, ClientInvariant, PlaceInvariant, QueueInvariant, BudgetInvariant, PTL
  DEF SchedulerSpec

(***************************************************************************)
(* The batch handed to the model runner has each sequence once, all of     *)
(* them running with a slot for every token, whatever the loop evicted     *)
(* after it had taken them, and a decode batch has no sequence whose       *)
(* prompt is not computed.                                                 *)
(***************************************************************************)
THEOREM BatchAlwaysReady == SchedulerSpec => []BatchReady
<1>1. ClientInv /\ PlaceInv /\ QueueInv /\ PlacedInv => BatchReady
  <2> SUFFICES ASSUME ClientInv, PlaceInv, QueueInv, PlacedInv, phase = "run"
               PROVE  /\ scheduled_seqs # <<>>
                      /\ IsInjective(scheduled_seqs)
                      /\ Batch \subseteq Range(running)
                      /\ \A s \in Batch : placed[s]
                      /\ EnableChunkedPrefill /\ ~is_prefill =>
                           \A s \in Batch : is_prefill_finished(s)
    BY DEF BatchReady
  <2>1. Batch \subseteq Request
    BY DEF Batch, Range, ClientInv, QueueType
  <2>2. InFlight = Batch
    BY DEF InFlight
  <2>3. op = "idle"
    BY DEF PlaceInv, CallPlace, ClientInv, TypeInv, TypeOK, Methods
  <2>4. \A s \in Batch : placed[s] /\ status[s] = "running"
    BY <2>1, <2>2 DEF PlacedInv, FlightInv
  <2>5. \A s \in Batch : s \in Range(running)
    BY <2>1, <2>3, <2>4 DEF QueueInv, Owned, Taken
  <2> QED
    BY <2>2, <2>4, <2>5 DEF PlacedInv, FlightInv, BatchInv
<1> QED
  BY <1>1, ClientInvariant, PlaceInvariant, QueueInvariant, PlacedInvariant, PTL

-----------------------------------------------------------------------------
(* The limit on the number of sequences.                                   *)

\* The running sequences that do not wait for a slot.
PlacedSet == {s \in Request : status[s] = "running" /\ placed[s]}

(***************************************************************************)
(* The loop that resumes prefills does not look at max_num_seqs.  It need  *)
(* not: sequences become placed only by joining a batch, which the other   *)
(* two loops keep below the limit, and they join when all placed sequences *)
(* are in the batch already.                                               *)
(***************************************************************************)
LimitInv ==
  /\ IsFiniteSet(PlacedSet) /\ Cardinality(PlacedSet) <= MaxNumSeqs
  /\ op = "allocate" \/ (phase = "decode" /\ seq # NoRequest) =>
       Len(scheduled_seqs) < MaxNumSeqs
  /\ phase = "run" /\ ~is_prefill => Len(scheduled_seqs) = Least(MaxNumSeqs, Len(running))

\* Until it is postprocessed, the batch has placed sequences only.
LEMMA BatchIsPlaced ==
  ASSUME ClientInv, PlacedInv, LimitInv, phase # "postprocess"
  PROVE  /\ Batch \subseteq PlacedSet
         /\ IsFiniteSet(Batch) /\ Cardinality(Batch) = Len(scheduled_seqs)
         /\ Len(scheduled_seqs) <= MaxNumSeqs
<1>1. scheduled_seqs \in Seq(Request) /\ IsInjective(scheduled_seqs)
  BY DEF ClientInv, QueueType, PlacedInv, FlightInv
<1>2. IsFiniteSet(Batch) /\ Cardinality(Batch) = Len(scheduled_seqs)
  BY <1>1, InjectiveLength DEF Batch
<1>3. Batch \subseteq Request
  BY <1>1 DEF Batch, Range
<1>4. Batch \subseteq PlacedSet
  BY <1>3 DEF PlacedSet, PlacedInv, FlightInv, InFlight
<1>5. Cardinality(Batch) <= Cardinality(PlacedSet)
  BY <1>4, FS_Subset DEF LimitInv
<1>6. /\ Cardinality(Batch) \in Nat /\ Cardinality(PlacedSet) \in Nat
  BY <1>2, FS_CardinalityType DEF LimitInv
<1> QED
  BY <1>2, <1>4, <1>5, <1>6, SchedulerAssumption DEF LimitInv

\* A step that places nothing keeps the number of placed sequences.
LEMMA PlacedShrinks ==
  ASSUME LimitInv, PlacedSet' \subseteq PlacedSet
  PROVE  IsFiniteSet(PlacedSet') /\ Cardinality(PlacedSet') <= MaxNumSeqs
<1>1. IsFiniteSet(PlacedSet') /\ Cardinality(PlacedSet') <= Cardinality(PlacedSet)
  BY FS_Subset DEF LimitInv
<1>2. Cardinality(PlacedSet') \in Nat /\ Cardinality(PlacedSet) \in Nat
  BY <1>1, FS_CardinalityType DEF LimitInv
<1> QED
  BY <1>1, <1>2, SchedulerAssumption DEF LimitInv

\* Sequences are placed by joining a batch that has room.
LEMMA JoinLimit ==
  ASSUME ClientInv, PlacedInv, LimitInv, phase # "postprocess", AllAwait,
         Len(scheduled_seqs) < MaxNumSeqs, NEW r, PlacedSet' \subseteq PlacedSet \cup {r}
  PROVE  IsFiniteSet(PlacedSet') /\ Cardinality(PlacedSet') <= MaxNumSeqs
<1>1. PlacedSet \subseteq Batch
  BY DEF PlacedSet, AllAwait, Resting, InFlight, Awaits
<1>2. PlacedSet' \subseteq Batch \cup {r}
  BY <1>1
<1>3. IsFiniteSet(Batch) /\ Cardinality(Batch) = Len(scheduled_seqs)
  BY BatchIsPlaced
<1>4. PICK n \in Nat : n = Cardinality(Batch) /\ n < MaxNumSeqs
  BY <1>3, FS_CardinalityType
<1>5. IsFiniteSet(Batch \cup {r}) /\ Cardinality(Batch \cup {r}) <= n + 1
  <2>1. /\ IsFiniteSet(Batch \cup {r})
        /\ Cardinality(Batch \cup {r}) = IF r \in Batch THEN n ELSE n + 1
    BY <1>3, <1>4, FS_AddElement
  <2> QED
    BY <2>1
<1>6. /\ IsFiniteSet(PlacedSet') /\ Cardinality(PlacedSet') <= Cardinality(Batch \cup {r})
  BY <1>2, <1>5, FS_Subset
<1>7. Cardinality(PlacedSet') \in Nat /\ Cardinality(Batch \cup {r}) \in Nat
  BY <1>5, <1>6, FS_CardinalityType
<1> QED
  BY <1>4, <1>5, <1>6, <1>7, SchedulerAssumption

\* Steps that place nothing.
LEMMA OtherStepsPlace ==
  ASSUME ClientInv, PlaceInv, PlacedInv, [SchedulerNext]_allVars, ~AdmitStep, ~DecodeStep
  PROVE  PlacedSet' \subseteq PlacedSet
<1>1. /\ status \in [Request -> {"absent", "waiting", "running", "swapped", "finished"}]
      /\ placed \in [Request -> BOOLEAN]
      /\ CallPlace
  BY DEF ClientInv, TypeInv, TypeOK, PlaceInv
<1>2. CASE UNCHANGED <<status, placed>>
  BY <1>2 DEF PlacedSet
<1>3. CASE \E s \in Request : Add(s)
  <2>1. PICK s \in Request : Add(s)
    BY <1>3
  <2>2. UNCHANGED placed /\ status' = [status EXCEPT ![s] = "waiting"]
    BY <2>1 DEF Add, NewSequence
  <2> QED
    BY <1>1, <2>2 DEF PlacedSet
<1>4. CASE Evict
  <2>1. UNCHANGED placed /\ (UNCHANGED status \/ \E v : status' = [status EXCEPT ![v] = "waiting"])
    BY <1>4 DEF Evict, Preempt
  <2> QED
    BY <1>1, <2>1 DEF PlacedSet
<1>5. CASE EvictSwapStep
  <2>1. UNCHANGED placed /\ (UNCHANGED status \/ status' = [status EXCEPT ![cur] = "swapped"])
    BY <1>5 DEF EvictSwapStep, SwapOutStep
  <2> QED
    BY <1>1, <2>1 DEF PlacedSet
<1>6. CASE SwapInIteration
  <2>1. /\ UNCHANGED placed /\ op = "swap_in"
        /\ UNCHANGED status \/ status' = [status EXCEPT ![cur] = "running"]
    BY <1>6 DEF SwapInIteration, SwapInStep
  <2>2. PICK r \in Request : r = cur
    BY <2>1, BlockManagerAssumption DEF ClientInv, TypeInv, TypeOK
  <2>3. status[r] = "swapped"
    BY <2>1, <2>2 DEF ClientInv, TypeInv, TypeOK, MethodHasRoom
  <2>4. ~placed[r]
    BY <2>3 DEF PlacedInv, FlightInv, Awaits
  <2> QED
    BY <1>1, <2>1, <2>2, <2>4 DEF PlacedSet
<1>7. CASE PostFinish
  <2>1. UNCHANGED placed /\ status' = [status EXCEPT ![seq] = "finished"]
    BY <1>7 DEF PostFinish, BeginFinish
  <2> QED
    BY <1>1, <2>1 DEF PlacedSet
<1>8. CASE \E t \in Token : PostAppend(t)
  <2>1. UNCHANGED status /\ placed' = [placed EXCEPT ![Head(todo)] = FALSE]
    BY <1>8 DEF PostAppend, append_token
  <2> QED
    BY <1>1, <2>1 DEF PlacedSet
<1>9. CASE \/ Schedule \/ ResumePrefill \/ ResumeEnd \/ Admit \/ AdmitEnd
           \/ SwapIn \/ SwapInEnd \/ PickDecode \/ EvictDropStep
           \/ Decode \/ DecodeEnd \/ NothingScheduled
           \/ Run \/ Record \/ RecordEnd \/ PostSkip \/ PostContinue
           \/ PostFinishStep \/ PostEnd \/ AllDone \/ UNCHANGED allVars
  <2>1. UNCHANGED <<status, placed>>
    BY <1>9 DEF Schedule, ResumePrefill, ResumeEnd, Admit, BeginAllocate, AdmitEnd, SwapIn,
         BeginSwapIn, SwapInEnd, PickDecode, EvictDropStep, DeallocateStep, Decode, CopyOnWrite,
         DecodeEnd, NothingScheduled, Run, Record, RecordComputed, RecordEnd, PostSkip,
         PostContinue, PostFinishStep, PostEnd, AllDone, allVars, vars, seqVars
  <2> QED
    BY <1>2, <2>1
<1> QED
  BY <1>3, <1>4, <1>5, <1>6, <1>7, <1>8, <1>9 DEF SchedulerNext, EngineStep

\* The number of placed sequences.
LEMMA PlacedLimitStep ==
  ASSUME ClientInv, PlaceInv, PlacedInv, LimitInv, [SchedulerNext]_allVars
  PROVE  IsFiniteSet(PlacedSet') /\ Cardinality(PlacedSet') <= MaxNumSeqs
<1>1. /\ status \in [Request -> {"absent", "waiting", "running", "swapped", "finished"}]
      /\ placed \in [Request -> BOOLEAN]
      /\ CallPlace
  BY DEF ClientInv, TypeInv, TypeOK, PlaceInv
<1>2. CASE AdmitStep
  <2>1. /\ op = "allocate" /\ phase = "admit"
        /\ \/ UNCHANGED <<status, placed>>
           \/ /\ status' = [status EXCEPT ![cur] = "running"]
              /\ placed' = [placed EXCEPT ![cur] = TRUE]
    BY <1>1, <1>2 DEF AdmitStep, AllocateStep, AllocateMiss, AllocateShared, AllocateRevived,
                      AddToTable, CallPlace
  <2>2. AllAwait /\ Len(scheduled_seqs) < MaxNumSeqs
    BY <2>1 DEF PlacedInv, ResumeInv, LimitInv
  <2>3. PlacedSet' \subseteq PlacedSet \cup {cur}
    BY <1>1, <2>1 DEF PlacedSet
  <2> QED
    BY <2>1, <2>2, <2>3, JoinLimit
<1>3. CASE DecodeStep
  <2>1. /\ op = "may_append" /\ phase = "decode" /\ cur = seq /\ UNCHANGED status
        /\ UNCHANGED placed \/ placed' = [placed EXCEPT ![cur] = TRUE]
    BY <1>1, <1>3 DEF DecodeStep, AppendStep, AppendNewBlock, AppendFillsBlock, AppendInside,
         AppendRaises, AppendDone, Appending, Raise, seqVars, CallPlace
  <2>2. seq # NoRequest
    BY <2>1, BlockManagerAssumption DEF ClientInv, TypeInv, TypeOK
  <2>3. AllAwait /\ Len(scheduled_seqs) < MaxNumSeqs
    BY <2>1, <2>2 DEF PlacedInv, ResumeInv, LimitInv
  <2>4. PlacedSet' \subseteq PlacedSet \cup {cur}
    BY <1>1, <2>1 DEF PlacedSet
  <2> QED
    BY <2>1, <2>3, <2>4, JoinLimit
<1> QED
  BY <1>2, <1>3, OtherStepsPlace, PlacedShrinks

\* There is room in the batch for the sequence that a loop works on.
LEMMA RoomStep ==
  ASSUME ClientInv, PlaceInv, LimitInv, [SchedulerNext]_allVars,
         op' = "allocate" \/ (phase' = "decode" /\ seq' # NoRequest)
  PROVE  Len(scheduled_seqs') < MaxNumSeqs
<1>1. CallPlace /\ SeqPlace
  BY DEF PlaceInv
<1>2. CASE /\ UNCHANGED scheduled_seqs
           /\ op' = "allocate" => op = "allocate"
           /\ phase' = "decode" /\ seq' # NoRequest => phase = "decode" /\ seq # NoRequest
  BY <1>2 DEF LimitInv
<1>3. CASE Admit
  BY <1>3 DEF Admit, Admissible
<1>4. CASE PickDecode
  BY <1>4 DEF PickDecode, batchVars
<1>5. CASE AdmitStep
  <2>1. op = "allocate" /\ phase = "admit" /\ phase' = phase
    BY <1>1, <1>5 DEF AdmitStep, AllocateStep, AllocateMiss, AllocateShared, AllocateRevived,
         CallPlace
  <2> QED
    BY <1>2, <1>5, <2>1 DEF AdmitStep
<1>6. CASE DecodeStep
  <2>1. op = "may_append" /\ op' \in {"may_append", "idle"} /\ phase = "decode" /\ phase' = phase
    BY <1>1, <1>6 DEF DecodeStep, AppendStep, AppendNewBlock, AppendFillsBlock, AppendInside,
         AppendRaises, AppendDone, Appending, Raise, Return, Call, callVars, CallPlace
  <2> QED
    BY <1>2, <1>6, <2>1 DEF DecodeStep
<1>7. CASE \/ (\E s \in Request : Add(s)) \/ Schedule \/ ResumePrefill \/ ResumeEnd \/ AdmitEnd
           \/ Run \/ Record \/ RecordEnd \/ PostSkip \/ (\E t \in Token : PostAppend(t))
           \/ PostContinue \/ PostFinish \/ PostFinishStep \/ PostEnd \/ SwapInEnd
           \/ SwapIn \/ SwapInIteration
  <2>1. op' # "allocate"
    <3>1. op \in Methods
      BY DEF ClientInv, TypeInv, TypeOK
    <3>2. CASE (\E s \in Request : Add(s)) \/ Schedule \/ AdmitEnd \/ Run \/ Record \/ PostSkip
               \/ (\E t \in Token : PostAppend(t)) \/ PostContinue \/ PostFinish
               \/ PostFinishStep \/ PostEnd \/ SwapInEnd \/ SwapIn \/ SwapInIteration
      BY <3>2 DEF Add, NewSequence, Schedule, BetweenSteps, AdmitEnd, Run, Record, RecordComputed,
           PostSkip, PostAppend, append_token, Postprocessing, PostContinue, PostFinish,
           BeginFinish, PostFinishStep, DeallocateStep, PostEnd, SwapInEnd, SwapIn, BeginSwapIn,
           SwapInIteration, SwapInStep, Idle, Call, Return, vars, callVars
    <3>3. CASE ResumePrefill \/ ResumeEnd \/ RecordEnd
      BY <1>1, <3>1, <3>3 DEF ResumePrefill, ResumeEnd, RecordEnd, CallPlace, vars, callVars
    <3> QED
      BY <1>7, <3>2, <3>3
  <2>2. ~(phase' = "decode" /\ seq' # NoRequest)
    <3>1. CASE SwapInEnd
      BY <1>1, <3>1 DEF SwapInEnd, SeqPlace
    <3>2. CASE ~SwapInEnd
      BY <1>1, <1>7, <3>2 DEF Add, BetweenSteps, Schedule, ResumePrefill, ResumeEnd, AdmitEnd,
           Run, Record, RecordEnd, PostSkip, PostAppend, Postprocessing, PostContinue, PostFinish,
           PostFinishStep, PostEnd, SwapIn, SwapInIteration, SwapInStep, Goto, schedulerVars,
           CallPlace
    <3> QED
      BY <3>1, <3>2
  <2> QED
    BY <2>1, <2>2
<1>8. CASE Evict \/ EvictSwapStep \/ EvictDropStep \/ Decode
  <2>1. UNCHANGED <<scheduled_seqs, phase>> /\ phase = "decode" /\ op' # "allocate"
    BY <1>1, <1>8 DEF Evict, Preempt, EvictSwapStep, SwapOutStep, EvictDropStep, DeallocateStep,
         Decode, Deciding, CopyOnWrite, Idle, Call, Return, callVars, batchVars, schedulerVars,
         CallPlace
  <2>2. seq' = seq \/ seq' = NoRequest
    BY <1>8 DEF Evict, EvictSwapStep, EvictDropStep, Decode, schedulerVars
  <2> QED
    BY <1>2, <2>1, <2>2
<1>9. CASE DecodeEnd \/ NothingScheduled
  <2>1. op' = "idle" /\ phase' # "decode"
    BY <1>9 DEF DecodeEnd, NothingScheduled, DecodeLoopDone, Idle, Goto, vars, callVars
  <2> QED
    BY <2>1
<1>10. CASE AllDone \/ UNCHANGED allVars
  BY <1>2, <1>10 DEF AllDone, allVars, vars, callVars, schedulerVars, batchVars
<1> QED
  BY <1>3, <1>4, <1>5, <1>6, <1>7, <1>8, <1>9, <1>10 DEF SchedulerNext, EngineStep

\* The loop over running stops when it is empty or the batch is full.
LEMMA DecodeBatchStep ==
  ASSUME ClientInv, PlaceInv, PlacedInv, LimitInv, [SchedulerNext]_allVars,
         phase' = "run", ~is_prefill'
  PROVE  Len(scheduled_seqs') = Least(MaxNumSeqs, Len(running'))
<1>1. CallPlace /\ scheduled_seqs \in Seq(Request) /\ running \in Seq(Request)
  BY DEF PlaceInv, ClientInv, QueueType
<1>2. CASE DecodeEnd
  <2>1. /\ running = <<>> \/ Len(scheduled_seqs) = MaxNumSeqs
        /\ running' = scheduled_seqs \o running /\ UNCHANGED scheduled_seqs
    BY <1>2 DEF DecodeEnd, DecodeLoopDone, PutBack
  <2>2. Len(scheduled_seqs) <= MaxNumSeqs
    BY <1>2, BatchIsPlaced DEF DecodeEnd, DecodeLoopDone
  <2>3. /\ Len(running') = Len(scheduled_seqs) + Len(running)
        /\ Len(scheduled_seqs) \in Nat /\ Len(running) \in Nat
    BY <1>1, <2>1, ConcatProperties, LenProperties
  <2>4. running = <<>> => Len(running) = 0
    BY EmptySeq
  <2>5. Len(running) = 0 \/ Len(scheduled_seqs) = MaxNumSeqs
    BY <2>1, <2>4
  <2> QED
    BY <2>1, <2>2, <2>3, <2>5, SchedulerAssumption DEF Least
<1>3. CASE AdmitEnd
  BY <1>3 DEF AdmitEnd, Goto
<1>4. CASE AllDone \/ UNCHANGED allVars
  <2>1. UNCHANGED <<phase, is_prefill, scheduled_seqs, running>>
    BY <1>4 DEF AllDone, allVars, schedulerVars, queueVars, batchVars
  <2> QED
    BY <2>1 DEF LimitInv
<1>5. CASE \/ (\E s \in Request : Add(s)) \/ Schedule \/ ResumePrefill \/ ResumeEnd \/ Admit
           \/ AdmitStep \/ SwapIn \/ SwapInIteration \/ SwapInEnd
  <2>1. phase' # "run"
    BY <1>1, <1>5 DEF Add, BetweenSteps, Schedule, ResumePrefill, ResumeEnd, Admit, AdmitStep,
       AllocateStep, AllocateMiss, AllocateShared, AllocateRevived, SwapIn, SwapInIteration,
       SwapInStep, SwapInEnd, Goto, schedulerVars, CallPlace
  <2> QED
    BY <2>1
<1>6. CASE \/ PickDecode \/ Evict \/ EvictSwapStep \/ EvictDropStep \/ Decode \/ DecodeStep
           \/ NothingScheduled
  <2>1. phase' # "run"
    BY <1>1, <1>6 DEF PickDecode, Evict, Deciding, EvictSwapStep, SwapOutStep, EvictDropStep,
       Decode, DecodeStep, AppendStep, AppendNewBlock, AppendFillsBlock, AppendInside,
       AppendRaises, Appending, NothingScheduled, schedulerVars, CallPlace
  <2> QED
    BY <2>1
<1>7. CASE \/ Run \/ Record \/ RecordEnd \/ PostSkip \/ (\E t \in Token : PostAppend(t))
           \/ PostContinue \/ PostFinish \/ PostFinishStep \/ PostEnd
  <2>1. phase' # "run"
    BY <1>7 DEF Run, Record, RecordEnd, PostSkip, PostAppend, Postprocessing, PostContinue,
       PostFinish, PostFinishStep, PostEnd, Goto, schedulerVars
  <2> QED
    BY <2>1
<1> QED
  BY <1>2, <1>3, <1>4, <1>5, <1>6, <1>7 DEF SchedulerNext, EngineStep

LEMMA LimitInvariant == SchedulerSpec => []LimitInv
<1>1. SchedulerInit => LimitInv
  <2> SUFFICES ASSUME SchedulerInit PROVE LimitInv
    OBVIOUS
  <2>1. PlacedSet = {}
    BY DEF SchedulerInit, Init, PlacedSet
  <2>2. op = "idle" /\ phase = "idle"
    BY DEF SchedulerInit, Init
  <2> QED
    BY <2>1, <2>2, FS_EmptySet, SchedulerAssumption DEF LimitInv
<1>2. ClientInv /\ PlaceInv /\ PlacedInv /\ LimitInv /\ [SchedulerNext]_allVars => LimitInv'
  BY PlacedLimitStep, RoomStep, DecodeBatchStep DEF LimitInv
<1> QED
  BY <1>1, <1>2, ClientInvariant, PlaceInvariant, PlacedInvariant, PTL DEF SchedulerSpec

(***************************************************************************)
(* A decode batch has every sequence that is still running after the       *)
(* evictions, up to max_num_seqs: the loop over running neither skips one  *)
(* nor loses one that it popped.                                           *)
(***************************************************************************)
THEOREM DecodeAlwaysTakesAll == SchedulerSpec => []DecodeTakesAll
<1>1. LimitInv => DecodeTakesAll
  BY DEF LimitInv, DecodeTakesAll
<1> QED
  BY <1>1, LimitInvariant, PTL

=============================================================================
