------------------------------ MODULE EngineProofs ------------------------------
(***************************************************************************)
(* The engine implements the scheduler; what the workers prepare from the  *)
(* copies they receive; and the three assertions and limits of a step that *)
(* need the requests' lengths: schedule finds work, a batch keeps within   *)
(* max_num_batched_tokens, store_kvcache has one slot per token.           *)
(* Then the bookkeeping of KvContent: the lists of moves, the stages of a  *)
(* step, what has been computed, and the room for what is swapped in.      *)
(***************************************************************************)
EXTENDS WorkerBatch, KvContent, SchedulerProofs, FoldProofs

-----------------------------------------------------------------------------
(* The engine is an implementation of the scheduler.                       *)

\* A step of the engine is a step of the scheduler, or leaves its variables alone.
LEMMA SchedulerSteps ==
  ASSUME [EngineNext]_systemVars
  PROVE  [SchedulerNext]_allVars
<1>1. CASE UNCHANGED systemVars
  BY <1>1 DEF systemVars
<1>2. CASE ClientStep
  BY <1>2 DEF ClientStep, SchedulerNext
<1>3. CASE SchedulerStep
  BY <1>3 DEF SchedulerStep, SchedulerNext, EngineStep
<1>4. CASE \/ EngineSchedule \/ EngineSwapIn \/ EngineSwapOut \/ EngineDrop
            \/ EngineDecode \/ RunModel
  BY <1>4 DEF EngineSchedule, EngineSwapIn, EngineSwapOut, EngineDrop, EngineDecode,
              RunModel, SchedulerNext, EngineStep
<1>5. CASE CopyKvBlocks \/ SwapBlocksOut \/ SwapBlocksIn
  BY <1>5 DEF CopyKvBlocks, SwapBlocksOut, SwapBlocksIn
<1> QED
  BY <1>1, <1>2, <1>3, <1>4, <1>5 DEF EngineNext, Step

(***************************************************************************)
(* Moving and computing KV data does not interfere with scheduling: every  *)
(* step of LLMEngine is one of Scheduler or leaves its variables alone, so *)
(* what is proved of Scheduler, and by BlockManagerImplemented of          *)
(* BlockManager, is true of the whole engine.                              *)
(***************************************************************************)
THEOREM SchedulerImplemented == EngineSpec => SchedulerSpec
<1>1. EngineInit => SchedulerInit
  BY DEF EngineInit
<1>2. [EngineNext]_systemVars => [SchedulerNext]_allVars
  BY SchedulerSteps
<1> QED
  BY <1>1, <1>2, PTL DEF EngineSpec, SchedulerSpec

-----------------------------------------------------------------------------
(* Sampled tokens.                                                         *)

(***************************************************************************)
(* A sequence that waits for a slot waits with a sampled token, and only   *)
(* one that ends has all the tokens it may have: what is evicted or given  *)
(* a slot is given room for one more.                                      *)
(***************************************************************************)
LengthInv ==
  /\ \A s \in Request :
       status[s] # "absent" =>
         /\ num_completion_tokens(s) \in 0 .. MaxTokens
         /\ placed[s] \/ status[s] \in {"waiting", "swapped"} =>
              num_completion_tokens(s) < MaxTokens
         /\ ~placed[s] /\ status[s] \in {"running", "swapped"} =>
              num_completion_tokens(s) > 0
  /\ op \in {"may_append", "swap_out"} => num_completion_tokens(cur) < MaxTokens

\* Only append_token changes the length of a sequence.
LEMMA SameLength ==
  ASSUME UNCHANGED <<token_ids, num_prompt_tokens>>
  PROVE  \A s : num_completion_tokens(s)' = num_completion_tokens(s)
BY DEF num_completion_tokens, SeqLen

LEMMA NewSequenceLength ==
  ASSUME TypeInv, LengthInv, NEW s \in Request, NewSequence(s)
  PROVE  LengthInv'
<1>1. /\ token_ids \in [Request -> Seq(Token)] /\ num_prompt_tokens \in [Request -> Nat]
      /\ status \in [Request -> {"absent", "waiting", "running", "swapped", "finished"}]
  BY DEF TypeInv, TypeOK
<1>2. PICK p \in Prompts : /\ token_ids' = [token_ids EXCEPT ![s] = p]
                           /\ num_prompt_tokens' = [num_prompt_tokens EXCEPT ![s] = Len(p)]
  BY DEF NewSequence
<1>3. /\ op = "idle" /\ op' = op /\ UNCHANGED placed
      /\ status' = [status EXCEPT ![s] = "waiting"]
  BY DEF NewSequence, Idle, callVars
<1>4. num_completion_tokens(s)' = 0
  <2>1. Len(p) \in Nat
    BY BlockManagerAssumption, LenProperties
  <2>2. Len(token_ids'[s]) = Len(p) /\ num_prompt_tokens'[s] = Len(p)
    BY <1>1, <1>2
  <2> QED
    BY <2>1, <2>2 DEF num_completion_tokens, SeqLen
<1>5. \A v \in Request \ {s} : num_completion_tokens(v)' = num_completion_tokens(v)
  BY <1>1, <1>2 DEF num_completion_tokens, SeqLen
<1>6. status'[s] = "waiting" /\ \A v \in Request \ {s} : status'[v] = status[v]
  BY <1>1, <1>3
<1> QED
  BY <1>3, <1>4, <1>5, <1>6, BlockManagerAssumption DEF LengthInv

LEMMA AppendTokenLength ==
  ASSUME TypeInv, LengthInv, NEW s \in Request, NEW t \in Token, append_token(s, t)
  PROVE  LengthInv'
<1>1. /\ token_ids \in [Request -> Seq(Token)] /\ num_prompt_tokens \in [Request -> Nat]
      /\ placed \in [Request -> BOOLEAN]
  BY DEF TypeInv, TypeOK
<1>2. /\ op = "idle" /\ op' = op /\ UNCHANGED <<status, num_prompt_tokens>>
      /\ status[s] = "running" /\ placed[s]
      /\ placed' = [placed EXCEPT ![s] = FALSE]
      /\ token_ids' = [token_ids EXCEPT ![s] = Append(@, t)]
  BY DEF append_token, Idle, callVars
<1>3. Len(token_ids[s]) \in Nat /\ Len(token_ids'[s]) = Len(token_ids[s]) + 1
  <2>1. token_ids'[s] = Append(token_ids[s], t) /\ token_ids[s] \in Seq(Token)
    BY <1>1, <1>2
  <2> QED
    BY <2>1, AppendProperties, LenProperties
<1>4. PICK n \in 0 .. MaxTokens : n = num_completion_tokens(s) /\ n < MaxTokens
  BY <1>2 DEF LengthInv
<1>5. num_completion_tokens(s)' = n + 1
  <2>1. num_prompt_tokens[s] \in Nat
    BY <1>1
  <2>2. Len(token_ids[s]) - num_prompt_tokens[s] = n
    BY <1>4 DEF num_completion_tokens, SeqLen
  <2> QED
    BY <1>2, <1>3, <2>1, <2>2 DEF num_completion_tokens, SeqLen
<1>6. \A v \in Request \ {s} : num_completion_tokens(v)' = num_completion_tokens(v)
  BY <1>1, <1>2 DEF num_completion_tokens, SeqLen
<1>7. ~placed'[s] /\ \A v \in Request \ {s} : placed'[v] = placed[v]
  BY <1>1, <1>2
<1>8. n + 1 \in 0 .. MaxTokens /\ n + 1 > 0
  BY <1>4, BlockManagerAssumption
<1> QED
  BY <1>2, <1>5, <1>6, <1>7, <1>8 DEF LengthInv

\* The other steps move a sequence on in its life.
LEMMA OtherStepLength ==
  ASSUME TypeInv, LengthInv, [Next]_vars,
         \A s \in Request : ~NewSequence(s) /\ \A t \in Token : ~append_token(s, t)
  PROVE  LengthInv'
<1>1. UNCHANGED <<token_ids, num_prompt_tokens>>
  BY DEF Next, RecordComputed, BeginAllocate, BeginFinish, Preempt, BeginSwapIn, CopyOnWrite,
     AllocateStep, AllocateMiss, AllocateShared, AllocateRevived, AddToTable, DeallocateStep,
     SwapOutStep, SwapInStep, AppendStep, AppendNewBlock, AppendFillsBlock, AppendInside,
     AppendRaises, AppendDone, Raise, Stopped, vars, seqVars
<1>2. \A s : num_completion_tokens(s)' = num_completion_tokens(s)
  BY <1>1, SameLength
<1>3. /\ placed \in [Request -> BOOLEAN]
      /\ status \in [Request -> {"absent", "waiting", "running", "swapped", "finished"}]
      /\ op # "idle" => cur \in Request
      /\ MethodHasRoom
  BY BlockManagerAssumption DEF TypeInv, TypeOK
<1>4. CASE UNCHANGED <<status, placed>> /\ op' \notin {"may_append", "swap_out"}
  BY <1>2, <1>4 DEF LengthInv
<1>5. CASE UNCHANGED <<status, placed, op, cur>>
  BY <1>2, <1>5 DEF LengthInv
<1>6. ASSUME NEW s \in Request, BeginFinish(s)
      PROVE  LengthInv'
  <2>1. /\ UNCHANGED placed /\ ~placed[s] /\ op' = "deallocate"
        /\ status' = [status EXCEPT ![s] = "finished"] /\ status[s] = "running"
    BY <1>6 DEF BeginFinish, Call
  <2> QED
    BY <1>2, <1>3, <2>1 DEF LengthInv
<1>7. ASSUME NEW s \in Request, Preempt(s)
      PROVE  LengthInv'
  <2>1. /\ UNCHANGED placed /\ status[s] = "running" /\ num_completion_tokens(s) # MaxTokens
        /\ \/ op' = "swap_out" /\ cur' = s /\ UNCHANGED status
           \/ op' = "deallocate" /\ status' = [status EXCEPT ![s] = "waiting"]
    BY <1>7 DEF Preempt, Call, Finished
  <2>2. num_completion_tokens(s) < MaxTokens
    BY <2>1, BlockManagerAssumption DEF LengthInv
  <2> QED
    BY <1>2, <1>3, <2>1, <2>2 DEF LengthInv
<1>8. ASSUME NEW s \in Request, CopyOnWrite(s)
      PROVE  LengthInv'
  <2>1. /\ UNCHANGED <<status, placed>> /\ status[s] = "running"
        /\ num_completion_tokens(s) # MaxTokens
        /\ \/ op' = "may_append" /\ cur' = s
           \/ UNCHANGED <<op, cur>>
    BY <1>8 DEF CopyOnWrite, Call, Finished, seqVars, callVars
  <2>2. num_completion_tokens(s) < MaxTokens
    BY <2>1, BlockManagerAssumption DEF LengthInv
  <2> QED
    BY <1>2, <1>3, <2>1, <2>2 DEF LengthInv
<1>9. CASE AllocateStep
  <2>1. /\ op = "allocate"
        /\ \/ UNCHANGED <<op, cur, status, placed>>
           \/ /\ op' = "idle"
              /\ status' = [status EXCEPT ![cur] = "running"]
              /\ placed' = [placed EXCEPT ![cur] = TRUE]
    BY <1>9 DEF AllocateStep, AllocateMiss, AllocateShared, AllocateRevived, AddToTable, Return,
                Call
  <2>2. PICK s \in Request : s = cur /\ status[s] = "waiting"
    BY <1>3, <2>1 DEF MethodHasRoom
  <2>3. CASE /\ op' = "idle"
             /\ status' = [status EXCEPT ![s] = "running"]
             /\ placed' = [placed EXCEPT ![s] = TRUE]
    <3>1. /\ status'[s] = "running" /\ placed'[s]
          /\ \A v \in Request \ {s} : status'[v] = status[v]
      BY <1>3, <2>3
    <3>2. \A v \in Request \ {s} : placed'[v] = placed[v]
      BY <1>3, <2>3
    <3> QED
      BY <1>2, <2>2, <2>3, <3>1, <3>2 DEF LengthInv
  <2> QED
    BY <1>5, <2>1, <2>2, <2>3
<1>10. CASE SwapOutStep
  <2>1. /\ op = "swap_out" /\ UNCHANGED placed
        /\ \/ UNCHANGED <<op, cur, status>>
           \/ op' = "idle" /\ status' = [status EXCEPT ![cur] = "swapped"]
    BY <1>10 DEF SwapOutStep, Return, Call, callVars
  <2>2. PICK s \in Request : s = cur /\ status[s] = "running"
    BY <1>3, <2>1 DEF MethodHasRoom
  <2> QED
    BY <1>2, <1>3, <1>5, <2>1, <2>2 DEF LengthInv
<1>11. CASE SwapInStep
  <2>1. /\ op = "swap_in" /\ UNCHANGED placed
        /\ \/ UNCHANGED <<op, cur, status>>
           \/ op' = "idle" /\ status' = [status EXCEPT ![cur] = "running"]
    BY <1>11 DEF SwapInStep, Return, Call
  <2>2. PICK s \in Request : s = cur /\ status[s] = "swapped"
    BY <1>3, <2>1 DEF MethodHasRoom
  <2> QED
    BY <1>2, <1>3, <1>5, <2>1, <2>2 DEF LengthInv
<1>12. CASE AppendStep
  <2>1. /\ op = "may_append" /\ UNCHANGED status
        /\ \/ UNCHANGED <<op, cur, placed>>
           \/ op' = "idle" /\ placed' = [placed EXCEPT ![cur] = TRUE]
    BY <1>12 DEF AppendStep, AppendNewBlock, AppendFillsBlock, AppendInside, AppendRaises,
                 AppendDone, Appending, Raise, Return, Call, seqVars, callVars
  <2>2. PICK s \in Request : s = cur /\ status[s] = "running"
    BY <1>3, <2>1 DEF MethodHasRoom
  <2>3. CASE op' = "idle" /\ placed' = [placed EXCEPT ![s] = TRUE]
    <3>1. placed'[s] /\ \A v \in Request \ {s} : placed'[v] = placed[v]
      BY <1>3, <2>3
    <3>2. num_completion_tokens(s) < MaxTokens
      BY <2>1, <2>2 DEF LengthInv
    <3> QED
      BY <1>2, <2>1, <2>2, <2>3, <3>1, <3>2 DEF LengthInv
  <2> QED
    BY <1>5, <2>1, <2>2, <2>3
<1>13. CASE \/ DeallocateStep \/ Stopped \/ UNCHANGED vars
            \/ \E s \in Request : \/ BeginAllocate(s) \/ BeginSwapIn(s)
                                  \/ \E n \in ChunkEnds : RecordComputed(s, n)
  <2>1. /\ UNCHANGED <<status, placed>>
        /\ UNCHANGED <<op, cur>> \/ op' \notin {"may_append", "swap_out"}
    BY <1>13 DEF DeallocateStep, Stopped, BeginAllocate, BeginSwapIn, RecordComputed, Return,
                 Call, vars, seqVars, callVars
  <2> QED
    BY <1>4, <1>5, <2>1
<1> QED
  BY <1>6, <1>7, <1>8, <1>9, <1>10, <1>11, <1>12, <1>13 DEF Next

LEMMA LengthInvariant == Spec => []LengthInv
<1>1. Init => LengthInv
  BY DEF Init, LengthInv
<1>2. TypeInv /\ LengthInv /\ [Next]_vars => LengthInv'
  BY NewSequenceLength, AppendTokenLength, OtherStepLength
<1> QED
  BY <1>1, <1>2, TypeInvariant, PTL DEF Spec

\* A sequence keeps its sampled tokens.
LEMMA CompletionKept ==
  ASSUME TypeInv, [Next]_vars, NEW s \in Request, status[s] # "absent",
         num_completion_tokens(s) > 0
  PROVE  num_completion_tokens(s)' > 0
<1>1. /\ token_ids \in [Request -> Seq(Token)] /\ num_prompt_tokens \in [Request -> Nat]
  BY DEF TypeInv, TypeOK
<1>2. ASSUME NEW v \in Request, NewSequence(v)
      PROVE  num_completion_tokens(s)' > 0
  <2>1. v # s
    BY <1>2 DEF NewSequence
  <2> QED
    BY <1>1, <1>2, <2>1 DEF NewSequence, num_completion_tokens, SeqLen
<1>3. ASSUME NEW v \in Request, NEW t \in Token, append_token(v, t)
      PROVE  num_completion_tokens(s)' > 0
  <2>1. /\ token_ids' = [token_ids EXCEPT ![v] = Append(@, t)] /\ UNCHANGED num_prompt_tokens
    BY <1>3 DEF append_token
  <2>2. CASE v # s
    BY <1>1, <2>1, <2>2 DEF num_completion_tokens, SeqLen
  <2>3. CASE v = s
    <3>1. token_ids'[s] = Append(token_ids[s], t) /\ token_ids[s] \in Seq(Token)
      BY <1>1, <2>1, <2>3
    <3>2. Len(token_ids[s]) \in Nat /\ Len(token_ids'[s]) = Len(token_ids[s]) + 1
      BY <3>1, AppendProperties, LenProperties
    <3>3. num_prompt_tokens[s] \in Nat
      BY <1>1
    <3> QED
      BY <2>1, <3>2, <3>3 DEF num_completion_tokens, SeqLen
  <2> QED
    BY <2>2, <2>3
<1>4. CASE \A v \in Request : ~NewSequence(v) /\ \A t \in Token : ~append_token(v, t)
  <2>1. UNCHANGED <<token_ids, num_prompt_tokens>>
    BY <1>4 DEF Next, RecordComputed, BeginAllocate, BeginFinish, Preempt, BeginSwapIn,
       CopyOnWrite, AllocateStep, AllocateMiss, AllocateShared, AllocateRevived, AddToTable,
       DeallocateStep, SwapOutStep, SwapInStep, AppendStep, AppendNewBlock, AppendFillsBlock,
       AppendInside, AppendRaises, AppendDone, Raise, Stopped, vars, seqVars
  <2> QED
    BY <2>1, SameLength
<1> QED
  BY <1>2, <1>3, <1>4

-----------------------------------------------------------------------------
(* How run and the decode loop are reached.                                *)

LEMMA RunEntered ==
  ASSUME ClientInv, PlaceInv, [SchedulerNext]_allVars, phase' = "run"
  PROVE  \/ AdmitEnd /\ is_prefill'
         \/ DecodeEnd
         \/ phase = "run" /\ UNCHANGED allVars
<1>1. CallPlace
  BY DEF PlaceInv
<1>2. CASE AdmitEnd
  BY <1>2 DEF AdmitEnd, Goto
<1>3. CASE AllDone \/ UNCHANGED allVars
  BY <1>3 DEF AllDone, allVars, schedulerVars
<1>4. CASE \/ (\E s \in Request : Add(s)) \/ Schedule \/ ResumePrefill \/ ResumeEnd \/ Admit
           \/ AdmitStep \/ SwapIn \/ SwapInIteration \/ SwapInEnd
  <2>1. phase' # "run"
    BY <1>1, <1>4 DEF Add, BetweenSteps, Schedule, ResumePrefill, ResumeEnd, Admit, AdmitStep,
       AllocateStep, AllocateMiss, AllocateShared, AllocateRevived, SwapIn, SwapInIteration,
       SwapInStep, SwapInEnd, Goto, schedulerVars, CallPlace
  <2> QED
    BY <2>1
<1>5. CASE \/ PickDecode \/ Evict \/ EvictSwapStep \/ EvictDropStep \/ Decode \/ DecodeStep
           \/ NothingScheduled
  <2>1. phase' # "run"
    BY <1>1, <1>5 DEF PickDecode, Evict, Deciding, EvictSwapStep, SwapOutStep, EvictDropStep,
       Decode, DecodeStep, AppendStep, AppendNewBlock, AppendFillsBlock, AppendInside,
       AppendRaises, Appending, NothingScheduled, schedulerVars, CallPlace
  <2> QED
    BY <2>1
<1>6. CASE \/ Run \/ Record \/ RecordEnd \/ PostSkip \/ (\E t \in Token : PostAppend(t))
           \/ PostContinue \/ PostFinish \/ PostFinishStep \/ PostEnd
  <2>1. phase' # "run"
    BY <1>6 DEF Run, Record, RecordEnd, PostSkip, PostAppend, Postprocessing, PostContinue,
       PostFinish, PostFinishStep, PostEnd, Goto, schedulerVars
  <2> QED
    BY <2>1
<1> QED
  BY <1>2, <1>3, <1>4, <1>5, <1>6 DEF SchedulerNext, EngineStep

LEMMA DecodeEntered ==
  ASSUME ClientInv, PlaceInv, [SchedulerNext]_allVars, phase' = "decode"
  PROVE  \/ SwapInEnd
         \/ phase = "decode" /\ DecodeStep
         \/ phase = "decode" /\ UNCHANGED scheduled_seqs
<1>1. CallPlace
  BY DEF PlaceInv
<1>2. CASE \/ PickDecode \/ Evict \/ EvictSwapStep \/ EvictDropStep \/ Decode \/ DecodeStep
           \/ AllDone \/ UNCHANGED allVars
  <2>1. phase = "decode"
    BY <1>2 DEF PickDecode, Evict, EvictSwapStep, EvictDropStep, Decode, DecodeStep, AllDone,
                allVars, schedulerVars
  <2>2. DecodeStep \/ UNCHANGED scheduled_seqs
    BY <1>2 DEF PickDecode, Evict, EvictSwapStep, EvictDropStep, Decode, AllDone, allVars,
                schedulerVars, batchVars
  <2> QED
    BY <2>1, <2>2
<1>3. CASE \/ (\E s \in Request : Add(s)) \/ Schedule \/ ResumePrefill \/ ResumeEnd \/ Admit
           \/ AdmitStep \/ AdmitEnd \/ SwapIn \/ SwapInIteration
  <2>1. phase' # "decode"
    BY <1>1, <1>3 DEF Add, BetweenSteps, Schedule, ResumePrefill, ResumeEnd, Admit, AdmitStep,
       AllocateStep, AllocateMiss, AllocateShared, AllocateRevived, AdmitEnd, SwapIn,
       SwapInIteration, SwapInStep, Goto, schedulerVars, CallPlace
  <2> QED
    BY <2>1
<1>4. CASE \/ DecodeEnd \/ NothingScheduled \/ Run \/ Record \/ RecordEnd \/ PostSkip
           \/ (\E t \in Token : PostAppend(t)) \/ PostContinue \/ PostFinish \/ PostFinishStep
           \/ PostEnd
  <2>1. phase' # "decode"
    BY <1>4 DEF DecodeEnd, NothingScheduled, Run, Record, RecordEnd, PostSkip, PostAppend,
       Postprocessing, PostContinue, PostFinish, PostFinishStep, PostEnd, Goto, schedulerVars
  <2> QED
    BY <2>1
<1> QED
  BY <1>2, <1>3, <1>4 DEF SchedulerNext, EngineStep

(***************************************************************************)
(* The decode loop takes only sequences with a sampled token; a prompt has *)
(* its slots from allocate.                                                *)
(***************************************************************************)
SampledInv ==
  phase = "decode" \/ (phase = "run" /\ ~is_prefill) =>
    \A s \in Batch : num_completion_tokens(s) > 0

LEMMA AppendBatch ==
  ASSUME NEW S, NEW q \in Seq(S), NEW e \in S
  PROVE  Range(Append(q, e)) \subseteq Range(q) \cup {e}
<1>1. /\ Append(q, e) \in Seq(S) /\ Len(Append(q, e)) = Len(q) + 1
      /\ \A i \in 1 .. Len(q) : Append(q, e)[i] = q[i]
      /\ Append(q, e)[Len(q) + 1] = e
  BY AppendProperties
<1>2. Len(q) \in Nat /\ DOMAIN q = 1 .. Len(q)
      /\ DOMAIN Append(q, e) = 1 .. Len(Append(q, e))
  BY <1>1, LenProperties
<1>3. ASSUME NEW i \in DOMAIN Append(q, e)
      PROVE  Append(q, e)[i] \in Range(q) \cup {e}
  <2>1. i \in 1 .. Len(q) \/ i = Len(q) + 1
    BY <1>1, <1>2
  <2> QED
    BY <1>1, <1>2, <2>1 DEF Range
<1> QED
  BY <1>3 DEF Range

LEMMA SampledStep ==
  ASSUME ClientInv, PlaceInv, FitInv, LengthInv, PlacedInv, SampledInv, [SchedulerNext]_allVars
  PROVE  SampledInv'
<1>1. TypeInv /\ [Next]_vars
  BY ClientSteps DEF ClientInv
<1>2. Batch \subseteq Request
  BY DEF ClientInv, QueueType, Batch, Range
<1>3. ASSUME phase # "postprocess", NEW s \in Batch, num_completion_tokens(s) > 0
      PROVE  num_completion_tokens(s)' > 0
  <2>1. status[s] = "running"
    BY <1>2, <1>3 DEF PlacedInv, FlightInv, InFlight
  <2> QED
    BY <1>1, <1>2, <1>3, <2>1, CompletionKept
<1>4. CASE phase' = "decode"
  <2>1. CASE SwapInEnd
    <3>1. scheduled_seqs' = <<>>
      BY <2>1 DEF SwapInEnd, batchVars, PlaceInv, SeqPlace
    <3>2. Batch' = {}
      BY <3>1 DEF Batch, Range
    <3> QED
      BY <3>2 DEF SampledInv
  <2>2. CASE phase = "decode" /\ UNCHANGED scheduled_seqs
    <3>1. Batch' = Batch
      BY <2>2 DEF Batch
    <3> QED
      BY <1>3, <2>2, <3>1 DEF SampledInv
  <2>3. CASE phase = "decode" /\ DecodeStep
    <3>1. op = "may_append" /\ (UNCHANGED scheduled_seqs \/ scheduled_seqs' = Append(scheduled_seqs, cur))
      BY <2>3 DEF DecodeStep, AppendStep, AppendNewBlock, AppendFillsBlock, AppendInside,
         AppendRaises, Appending
    <3>2. PICK r \in Request : r = cur
      BY <3>1, BlockManagerAssumption DEF ClientInv, TypeInv, TypeOK
    <3>3. status[r] = "running" /\ ~placed[r]
      BY <3>1, <3>2 DEF ClientInv, TypeInv, MethodHasRoom, FitInv
    <3>4. num_completion_tokens(r) > 0
      BY <3>3 DEF LengthInv
    <3>5. num_completion_tokens(r)' > 0
      BY <1>1, <3>3, <3>4, CompletionKept
    <3>6. Batch' \subseteq Batch \cup {r}
      <4>1. CASE UNCHANGED scheduled_seqs
        BY <4>1 DEF Batch
      <4>2. CASE scheduled_seqs' = Append(scheduled_seqs, r)
        <5>1. scheduled_seqs \in Seq(Request)
          BY DEF ClientInv, QueueType
        <5> QED
          BY <4>2, <5>1, AppendBatch DEF Batch
      <4> QED
        BY <3>1, <3>2, <4>1, <4>2
    <3> QED
      BY <1>3, <2>3, <3>5, <3>6 DEF SampledInv
  <2> QED
    BY <1>4, <2>1, <2>2, <2>3, DecodeEntered
<1>5. CASE phase' = "run" /\ ~is_prefill'
  <2>1. CASE DecodeEnd
    <3>1. phase = "decode" /\ Batch' = Batch
      BY <2>1 DEF DecodeEnd, DecodeLoopDone, Batch
    <3> QED
      BY <1>3, <3>1 DEF SampledInv
  <2>2. CASE phase = "run" /\ UNCHANGED allVars
    <3>1. phase = "run" /\ ~is_prefill /\ Batch' = Batch
      BY <1>5, <2>2 DEF Batch, allVars, schedulerVars, batchVars
    <3> QED
      BY <1>3, <3>1 DEF SampledInv
  <2> QED
    BY <1>5, <2>1, <2>2, RunEntered
<1> QED
  BY <1>4, <1>5 DEF SampledInv

LEMMA SampledInvariant == SchedulerSpec => [](LengthInv /\ SampledInv)
<1>1. SchedulerInit => SampledInv
  BY DEF SchedulerInit, SampledInv
<1>2. ClientInv /\ PlaceInv /\ FitInv /\ LengthInv /\ PlacedInv /\ SampledInv
        /\ [SchedulerNext]_allVars => SampledInv'
  BY SampledStep
<1>3. SchedulerSpec => Spec
  BY BlockManagerImplemented DEF ImplementsBlockManager
<1> QED
  BY <1>1, <1>2, <1>3, ClientInvariant, PlaceInvariant, FitInvariant, LengthInvariant,
     PlacedInvariant, PTL DEF SchedulerSpec

-----------------------------------------------------------------------------
(* What a worker computes from its copies.                                 *)

\* The copy of a sequence with sampled tokens has the last of them only.
LEMMA CopyFields ==
  ASSUME NEW s
  PROVE  /\ "seq_id" \notin DOMAIN Pickled(s)
         /\ "token_ids" \in DOMAIN Pickled(s) <=> num_completion_tokens(s) = 0
         /\ "last_token" \in DOMAIN Pickled(s) <=> num_completion_tokens(s) # 0
         /\ Pickled(s).num_tokens = SeqLen(s)
         /\ Pickled(s).num_cached_tokens = num_cached_tokens[s]
         /\ Pickled(s).block_table = block_table[s]
         /\ num_completion_tokens(s) = 0 => Pickled(s).token_ids = token_ids[s]
         /\ num_completion_tokens(s) # 0 => Pickled(s).last_token = Last(token_ids[s])
<1>1. CASE num_completion_tokens(s) = 0
  <2>1. Pickled(s) = [num_tokens |-> SeqLen(s), num_cached_tokens |-> num_cached_tokens[s],
                      block_table |-> block_table[s], token_ids |-> token_ids[s]]
    BY <1>1 DEF Pickled
  <2>2. DOMAIN Pickled(s) = {"num_tokens", "num_cached_tokens", "block_table", "token_ids"}
    BY <2>1
  <2> QED
    BY <1>1, <2>1, <2>2
<1>2. CASE num_completion_tokens(s) # 0
  <2>1. Pickled(s) = [num_tokens |-> SeqLen(s), num_cached_tokens |-> num_cached_tokens[s],
                      block_table |-> block_table[s], last_token |-> Last(token_ids[s])]
    BY <1>2 DEF Pickled
  <2>2. DOMAIN Pickled(s) = {"num_tokens", "num_cached_tokens", "block_table", "last_token"}
    BY <2>1
  <2> QED
    BY <1>2, <2>1, <2>2
<1> QED
  BY <1>1, <1>2

\* A prompt is prepared alike by whoever has its tokens.
LEMMA PrefillRows ==
  ASSUME ClientInv, NEW s \in Request, is_prefill, ~EnableChunkedPrefill,
         num_completion_tokens(s) = 0
  PROVE  WorkerRows(s) = OwnRows(s)
<1>1. num_cached_tokens[s] \in Nat /\ SeqLen(s) \in Nat
  <2>1. num_cached_tokens[s] \in Nat /\ token_ids[s] \in Seq(Token)
    BY DEF ClientInv, TypeInv, TypeOK
  <2> QED
    BY <2>1, LenProperties DEF SeqLen
<1>2. Queries(s) = num_cached_tokens[s] + 1 .. SeqLen(s)
  <2>1. num_cached_tokens[s] + (SeqLen(s) - num_cached_tokens[s]) = SeqLen(s)
    BY <1>1
  <2>2. QueryStart(s) = num_cached_tokens[s] /\ QueryLen(s) = SeqLen(s) - num_cached_tokens[s]
    BY DEF QueryStart, QueryLen, ChunkedBatch
  <2> QED
    BY <2>1, <2>2 DEF Queries
<1>3. \A p \in Queries(s) :
        PrefillSlot(s, p) =
          <<block_table[s][1 + num_cached_tokens[s] \div BlockSize
                             + (p - num_cached_tokens[s] - 1) \div BlockSize],
            1 + ((p - num_cached_tokens[s] - 1) % BlockSize)>>
  BY DEF PrefillSlot, QueryStart, ChunkedBatch
<1>4. WorkerRows(s) =
        {<<token_ids[s][p], p,
           <<block_table[s][1 + num_cached_tokens[s] \div BlockSize
                              + (p - num_cached_tokens[s] - 1) \div BlockSize],
             1 + ((p - num_cached_tokens[s] - 1) % BlockSize)>>>> :
           p \in num_cached_tokens[s] + 1 .. SeqLen(s)}
  BY CopyFields DEF WorkerRows
<1>5. OwnRows(s) = {<<token_ids[s][p], p, PrefillSlot(s, p)>> : p \in Queries(s)}
  BY DEF OwnRows
<1> QED
  BY <1>2, <1>3, <1>4, <1>5

\* The last token, its position and its slot are all that a decode needs.
LEMMA DecodeRows ==
  ASSUME NEW s, ~is_prefill, num_completion_tokens(s) # 0
  PROVE  WorkerRows(s) = OwnRows(s)
<1>1. WorkerRows(s) =
        {<<Last(token_ids[s]), SeqLen(s),
           <<Last(block_table[s]), SeqLen(s) - (num_blocks(s) - 1) * BlockSize>>>>}
  BY CopyFields DEF WorkerRows, num_blocks
<1>2. OwnRows(s) = {<<token_ids[s][p], p, DecodeSlot(s)>> : p \in {SeqLen(s)}}
  BY DEF OwnRows, Queries
<1>3. Last(token_ids[s]) = token_ids[s][SeqLen(s)]
  BY DEF Last, SeqLen
<1> QED
  BY <1>1, <1>2, <1>3 DEF DecodeSlot, last_block_num_tokens

(***************************************************************************)
(* call's comment, that the workers do the same as rank 0, and where it is *)
(* wrong: a worker prepares the rows that rank 0 prepares, from copies     *)
(* that lack most tokens, in every batch but a chunked prefill and a       *)
(* prefill of a sequence that was dropped after it had sampled a token; in *)
(* exactly those, it ends with an AttributeError.                          *)
(***************************************************************************)
THEOREM WorkersAlwaysPrepareSame == EngineSpec => []WorkersPrepareSame
<1>1. ClientInv /\ LengthInv /\ SampledInv /\ PlacedInv => WorkersPrepareSame
  <2> SUFFICES ASSUME ClientInv, LengthInv, SampledInv, PlacedInv, phase = "run"
               PROVE  /\ WorkerFails <=>
                           /\ is_prefill
                           /\ \/ EnableChunkedPrefill
                              \/ \E s \in Batch : num_completion_tokens(s) > 0
                      /\ ~WorkerFails => \A s \in Batch : WorkerRows(s) = OwnRows(s)
    BY DEF WorkersPrepareSame, Calling
  <2>1. Batch \subseteq Request /\ Batch # {}
    <3>1. scheduled_seqs \in Seq(Request) /\ scheduled_seqs # <<>>
      BY DEF ClientInv, QueueType, PlacedInv, BatchInv
    <3>2. 1 \in DOMAIN scheduled_seqs
      BY <3>1, LenProperties, EmptySeq
    <3> QED
      BY <3>1, <3>2 DEF Batch, Range
  <2>2. \A s \in Batch : num_completion_tokens(s) \in 0 .. MaxTokens
    <3>1. \A s \in Batch : status[s] = "running"
      BY <2>1 DEF PlacedInv, FlightInv, InFlight
    <3> QED
      BY <2>1, <3>1 DEF LengthInv
  <2>3. \A s \in Batch : num_completion_tokens(s) > 0 <=> num_completion_tokens(s) # 0
    <3>1. \A n \in 0 .. MaxTokens : n > 0 <=> n # 0
      BY BlockManagerAssumption
    <3> QED
      BY <2>2, <3>1
  <2>4. is_prefill \in BOOLEAN /\ EnableChunkedPrefill \in BOOLEAN
    BY SchedulerAssumption DEF ClientInv, QueueType
  <2>5. CASE ~is_prefill
    <3>1. \A s \in Batch : num_completion_tokens(s) # 0
      BY <2>3, <2>5 DEF SampledInv
    <3>2. ~WorkerFails
      BY <2>5, <3>1, CopyFields DEF WorkerFails, Needed
    <3> QED
      BY <2>5, <3>1, <3>2, DecodeRows
  <2>6. CASE is_prefill /\ EnableChunkedPrefill
    <3>1. PICK s \in Batch : TRUE
      BY <2>1
    <3>2. "seq_id" \in Needed /\ "seq_id" \notin DOMAIN Pickled(s)
      BY <2>6, CopyFields DEF Needed
    <3>3. WorkerFails
      BY <3>2 DEF WorkerFails
    <3> QED
      BY <2>6, <3>3
  <2>7. CASE is_prefill /\ ~EnableChunkedPrefill
    <3>1. Needed = {"token_ids"}
      BY <2>7 DEF Needed
    <3>2. WorkerFails <=> \E s \in Batch : num_completion_tokens(s) # 0
      BY <3>1, CopyFields DEF WorkerFails
    <3>3. ~WorkerFails => \A s \in Batch : num_completion_tokens(s) = 0
      BY <3>2
    <3>4. ~WorkerFails => \A s \in Batch : WorkerRows(s) = OwnRows(s)
      BY <2>1, <2>7, <3>3, PrefillRows
    <3> QED
      BY <2>3, <2>7, <3>2, <3>4
  <2> QED
    BY <2>4, <2>5, <2>6, <2>7
<1> QED
  BY <1>1, SchedulerImplemented, ClientInvariant, SampledInvariant, PlacedInvariant, PTL

-----------------------------------------------------------------------------
(* A step finds something to run.                                          *)

(***************************************************************************)
(* A request that is alone in the engine fits it, with all the tokens that *)
(* ever have a slot: all but the one sampled last.  A longer one is never  *)
(* admitted, or evicts itself for ever.                                    *)
(***************************************************************************)
RequestsFit ==
  \A p \in Prompts :
    /\ PagesFor(Len(p) + MaxTokens - 1) <= NumKvBlocks
    /\ ~EnableChunkedPrefill => Len(p) + MaxTokens - 1 <= MaxNumBatchedTokens

LEMMA PagesMonotone ==
  ASSUME NEW m \in Nat, NEW n \in Nat, m <= n
  PROVE  PagesFor(m) <= PagesFor(n)
<1> DEFINE a == PagesFor(m)
           b == PagesFor(n)
<1>1. /\ a \in Nat /\ b \in Nat
      /\ a * BlockSize <= m + BlockSize - 1
      /\ m + BlockSize - 1 < a * BlockSize + BlockSize
      /\ b * BlockSize <= n + BlockSize - 1
      /\ n + BlockSize - 1 < b * BlockSize + BlockSize
  BY BlockManagerAssumption DEF PagesFor
<1> HIDE DEF a, b
<1>2. CASE a <= b
  BY <1>2 DEF a, b
<1>3. CASE ~(a <= b)
  <2>1. PICK d \in Nat : a = b + 1 + d
    <3>1. a - b - 1 \in Nat /\ a = b + 1 + (a - b - 1)
      BY <1>1, <1>3
    <3> QED
      BY <3>1
  <2>2. \A x, y \in Nat : (x + 1 + y) * BlockSize = x * BlockSize + BlockSize + y * BlockSize
    BY BlockManagerAssumption
  <2>3. a * BlockSize = b * BlockSize + BlockSize + d * BlockSize
    BY <1>1, <2>1, <2>2
  <2>4. d * BlockSize \in Nat /\ b * BlockSize \in Nat /\ BlockSize \in Nat
    BY <1>1, <2>1, BlockManagerAssumption
  <2> QED
    BY <1>1, <2>3, <2>4
<1> QED
  BY <1>2, <1>3

LEMMA SequenceFits ==
  ASSUME ClientInv, LengthInv, RequestsFit, NEW s \in Request, status[s] # "absent",
         num_completion_tokens(s) < MaxTokens
  PROVE  /\ SeqLen(s) \in Nat \ {0}
         /\ PagesFor(SeqLen(s)) <= NumKvBlocks
         /\ ~EnableChunkedPrefill => SeqLen(s) <= MaxNumBatchedTokens
<1>1. PICK p \in Prompts : num_prompt_tokens[s] = Len(p)
  BY DEF ClientInv, PromptKept
<1>2. SeqLen(s) \in Nat \ {0}
  <2>1. token_ids[s] \in Seq(Token) /\ token_ids[s] # <<>>
    BY DEF ClientInv, TypeInv, TypeOK, TablesFollowStatus
  <2> QED
    BY <2>1, EndsType DEF SeqLen
<1>3. Len(p) \in Nat
  BY BlockManagerAssumption, LenProperties
<1>4. MaxTokens \in Nat \ {0} /\ BlockSize \in Nat \ {0} /\ NumKvBlocks \in Nat
  BY BlockManagerAssumption
<1>5. SeqLen(s) <= Len(p) + MaxTokens - 1 /\ Len(p) + MaxTokens - 1 \in Nat
  <2>1. SeqLen(s) - Len(p) < MaxTokens
    BY <1>1 DEF num_completion_tokens
  <2> QED
    BY <1>2, <1>3, <1>4, <2>1
<1>6. PagesFor(SeqLen(s)) <= PagesFor(Len(p) + MaxTokens - 1)
  BY <1>2, <1>5, PagesMonotone
<1>7. \A n \in Nat : PagesFor(n) \in Nat
  BY BlockManagerAssumption DEF PagesFor
<1>8. PagesFor(SeqLen(s)) <= NumKvBlocks
  <2>1. PICK a \in Nat, b \in Nat :
          a = PagesFor(SeqLen(s)) /\ b = PagesFor(Len(p) + MaxTokens - 1)
    BY <1>2, <1>5, <1>7
  <2>2. b <= NumKvBlocks
    BY <2>1 DEF RequestsFit
  <2> QED
    BY <1>4, <1>6, <2>1, <2>2
<1>9. ~EnableChunkedPrefill => SeqLen(s) <= MaxNumBatchedTokens
  BY <1>2, <1>5, SchedulerAssumption DEF RequestsFit
<1> QED
  BY <1>2, <1>8, <1>9

\* Between methods, a block that is not free is in the table of a running sequence.
LEMMA BlockHolder ==
  ASSUME ClientInv, PoolInv, op = "idle", NEW b \in BlockId, b \notin Range(free_block_ids)
  PROVE  \E s \in Request :
           status[s] = "running" /\ \E i \in DOMAIN block_table[s] : block_table[s][i] = b
<1>1. References(b) # {}
  <2>1. ref_count[b] > 0
    BY DEF PoolInv, PoolPartition
  <2>2. CASE References(b) = {}
    BY <2>1, <2>2, FS_EmptySet DEF PoolInv, RefInv, RefCountExact
  <2> QED
    BY <2>2
<1>2. PICK s \in Request : \E i \in Held(s) : block_table[s][i] = b
  BY <1>1 DEF References
<1>3. \E i \in DOMAIN block_table[s] : block_table[s][i] = b
  BY <1>2 DEF Held
<1>4. block_table[s] # <<>>
  BY <1>3
<1>5. status[s] = "running"
  <2>1. cur = NoRequest
    BY DEF ClientInv, TypeInv, TypeOK
  <2>2. cur # s
    BY <2>1, BlockManagerAssumption
  <2>3. status[s] \notin {"absent", "waiting", "finished", "swapped"}
    BY <1>4, <2>2 DEF ClientInv, TypeInv, TablesFollowStatus
  <2> QED
    BY <2>3 DEF ClientInv, TypeInv, TypeOK
<1> QED
  BY <1>3, <1>5

LEMMA NumberOfBlocks == IsFiniteSet(BlockId) /\ Cardinality(BlockId) = NumKvBlocks
<1>1. 0 \in Int /\ NumKvBlocks - 1 \in Int /\ NumKvBlocks \in Nat \ {0}
  BY BlockManagerAssumption
<1>2. /\ IsFiniteSet(0 .. NumKvBlocks - 1)
      /\ Cardinality(0 .. NumKvBlocks - 1)
           = IF 0 > NumKvBlocks - 1 THEN 0 ELSE (NumKvBlocks - 1) - 0 + 1
  BY <1>1, FS_Interval
<1> QED
  BY <1>1, <1>2 DEF BlockId

\* The pool is free when nothing runs.
LEMMA PoolFree ==
  ASSUME ClientInv, PoolInv, op = "idle", \A s \in Request : status[s] # "running"
  PROVE  Len(free_block_ids) = NumKvBlocks
<1>1. free_block_ids \in Seq(BlockId) /\ IsInjective(free_block_ids)
  BY DEF ClientInv, TypeInv, TypeOK, PoolInv, PoolPartition
<1>2. Range(free_block_ids) = BlockId
  BY BlockHolder DEF PoolInv, PoolPartition
<1> QED
  BY <1>1, <1>2, InjectiveLength, NumberOfBlocks

\* A sequence whose table is the only one leaves the other blocks free.
LEMMA AloneInPool ==
  ASSUME ClientInv, PoolInv, op = "idle", NEW s \in Request,
         \A r \in Request : status[r] = "running" => r = s, free_block_ids = <<>>
  PROVE  NumKvBlocks <= Len(block_table[s])
<1>1. PICK n \in Nat : n = Len(block_table[s])
  <2>1. block_table[s] \in Seq(BlockId)
    BY DEF ClientInv, TypeInv, TypeOK
  <2> QED
    BY <2>1, LenProperties
<1>2. DOMAIN block_table[s] = 1 .. n
  BY <1>1 DEF ClientInv, TypeInv, TypeOK
<1>3. Range(free_block_ids) = {}
  BY DEF Range
<1>4. \A b \in BlockId : \E i \in 1 .. n : block_table[s][i] = b
  BY <1>2, <1>3, BlockHolder
<1> DEFINE f == [b \in BlockId |-> CHOOSE i \in 1 .. n : block_table[s][i] = b]
<1>6. \A b \in BlockId : f[b] \in 1 .. n /\ block_table[s][f[b]] = b
  BY <1>4
<1>7. f \in Injection(BlockId, 1 .. n)
  <2>1. f \in [BlockId -> 1 .. n]
    BY <1>6
  <2>2. \A a, b \in BlockId : f[a] = f[b] => a = b
    <3> HIDE DEF f
    <3> QED
      BY <1>6
  <2> HIDE DEF f
  <2> QED
    BY <2>1, <2>2 DEF Injection, IsInjective
<1>8. IsFiniteSet(1 .. n) /\ Cardinality(1 .. n) = n
  <2>1. 1 \in Int /\ n \in Int
    OBVIOUS
  <2>2. /\ IsFiniteSet(1 .. n) /\ Cardinality(1 .. n) = IF 1 > n THEN 0 ELSE n - 1 + 1
    BY <2>1, FS_Interval
  <2> QED
    BY <2>2
<1> HIDE DEF f
<1>9. Cardinality(BlockId) <= Cardinality(1 .. n)
  BY <1>7, <1>8, FS_Injection
<1> QED
  BY <1>1, <1>8, <1>9, NumberOfBlocks

(***************************************************************************)
(* schedule does not come to its end with nothing: what is there when it   *)
(* starts is either admitted, or there is something to swap in or to       *)
(* decode, and the decode loop evicts the sequence it works on only if it  *)
(* has taken another one.                                                  *)
(***************************************************************************)
FindsWork ==
  /\ phase \in {"resume", "admit"} => ~is_finished
  /\ phase = "swap_in" => running # <<>> \/ swapped # <<>>
  /\ phase = "decode" => scheduled_seqs # <<>> \/ seq # NoRequest \/ running # <<>>
  /\ phase # "nothing scheduled"

\* A request that waits alone is admitted.
LEMMA AdmitsWork ==
  ASSUME ClientInv, PlaceInv, QueueInv, PoolInv, CachedInv, LengthInv, PlacedInv, FindsWork,
         RequestsFit, AdmitEnd, scheduled_seqs = <<>>
  PROVE  running # <<>> \/ swapped # <<>>
<1> SUFFICES ASSUME running = <<>>, swapped = <<>>
             PROVE  Admissible
  BY DEF AdmitEnd
<1>1. phase = "admit" /\ op = "idle"
  BY DEF AdmitEnd, Idle
<1>2. waiting # <<>> /\ waiting \in Seq(Request)
  BY <1>1 DEF FindsWork, is_finished, ClientInv, QueueType
<1>3. PICK s \in Request : s = Head(waiting) /\ s \in Range(waiting)
  <2>1. Head(waiting) = waiting[1] /\ 1 \in DOMAIN waiting
    BY <1>2, LenProperties, EmptySeq
  <2> QED
    BY <1>2, <2>1 DEF Range
<1>4. status[s] = "waiting"
  BY <1>3 DEF QueueInv, Waits
<1>5. \A r \in Request : status[r] # "running"
  BY <1>1 DEF QueueInv, Owned, Taken, Range
<1>6. Len(free_block_ids) = NumKvBlocks
  BY <1>1, <1>5, PoolFree
<1>7. num_completion_tokens(s) < MaxTokens
  BY <1>4 DEF LengthInv
<1>8. /\ SeqLen(s) \in Nat \ {0}
      /\ PagesFor(SeqLen(s)) <= NumKvBlocks
      /\ ~EnableChunkedPrefill => SeqLen(s) <= MaxNumBatchedTokens
  BY <1>4, <1>7, SequenceFits
<1>9. can_allocate(s)
  <2>1. num_blocks(s) = PagesFor(SeqLen(s)) /\ NumKvBlocks \in Nat
    BY BlockManagerAssumption DEF num_blocks, PagesFor
  <2>2. PagesFor(SeqLen(s)) \in Int
    BY <1>8, BlockManagerAssumption DEF PagesFor
  <2> QED
    BY <1>6, <1>8, <2>1, <2>2 DEF can_allocate
<1>10. num_batched_tokens = 0
  BY <1>1 DEF PlacedInv, ResumeInv
<1>11. num_cached_tokens[s] = 0
  <2>1. s # cur
    BY <1>1, BlockManagerAssumption DEF ClientInv, TypeInv, TypeOK
  <2> QED
    BY <1>4, <2>1 DEF CachedInv
<1>12. WithinBudget(s)
  BY <1>8, <1>10, <1>11, SchedulerAssumption DEF WithinBudget, Chunk, Least
<1>13. Len(scheduled_seqs) < MaxNumSeqs
  <2>1. Len(<<>>) = 0
    OBVIOUS
  <2> QED
    BY <2>1, SchedulerAssumption
<1> QED
  BY <1>2, <1>3, <1>9, <1>12, <1>13 DEF Admissible

\* A request that is swapped out alone is swapped in.
LEMMA SwapsInWork ==
  ASSUME ClientInv, PlaceInv, QueueInv, PoolInv, FitInv, LengthInv, FindsWork,
         RequestsFit, SwapInEnd
  PROVE  running # <<>>
<1> SUFFICES ASSUME running = <<>>
             PROVE  swapped # <<>> /\ can_swap_in(Head(swapped))
  BY DEF SwapInEnd
<1>1. phase = "swap_in" /\ op = "idle"
  BY DEF SwapInEnd, Idle
<1>2. swapped # <<>> /\ swapped \in Seq(Request)
  BY <1>1 DEF FindsWork, ClientInv, QueueType
<1>3. PICK s \in Request : s = Head(swapped) /\ s \in Range(swapped)
  <2>1. Head(swapped) = swapped[1] /\ 1 \in DOMAIN swapped
    BY <1>2, LenProperties, EmptySeq
  <2> QED
    BY <1>2, <2>1 DEF Range
<1>4. status[s] = "swapped"
  BY <1>3 DEF QueueInv
<1>5. \A r \in Request : status[r] # "running"
  BY <1>1 DEF QueueInv, Owned, Taken, Range
<1>6. Len(free_block_ids) = NumKvBlocks
  BY <1>1, <1>5, PoolFree
<1>7. num_completion_tokens(s) < MaxTokens
  BY <1>4 DEF LengthInv
<1>8. SeqLen(s) \in Nat \ {0} /\ PagesFor(SeqLen(s)) <= NumKvBlocks
  BY <1>4, <1>7, SequenceFits
<1>9. Slotted(s) \in Nat /\ Slotted(s) <= SeqLen(s)
  BY <1>8 DEF Slotted
<1>10. PagesFor(Slotted(s)) <= PagesFor(SeqLen(s))
  BY <1>8, <1>9, PagesMonotone
<1>11. Len(cpu_block_table[s]) = PagesFor(Slotted(s))
  BY <1>4 DEF FitInv, FitsOnCpu
<1>12. \A n \in Nat : PagesFor(n) \in Nat
  BY BlockManagerAssumption DEF PagesFor
<1>13. PagesFor(Slotted(s)) <= NumKvBlocks
  BY <1>8, <1>9, <1>10, <1>12, BlockManagerAssumption
<1> QED
  BY <1>2, <1>3, <1>6, <1>11, <1>13 DEF can_swap_in

\* A sequence that is the only one left has room for its next token.
LEMMA KeepsLast ==
  ASSUME ClientInv, QueueInv, PoolInv, FitInv, LengthInv, RequestsFit,
         Evict, running = <<>>, scheduled_seqs = <<>>
  PROVE  FALSE
<1>1. phase = "decode" /\ op = "idle" /\ seq # NoRequest /\ ~can_append(seq)
  BY DEF Evict, Deciding, Idle
<1>2. PICK s \in Request : s = seq
  BY <1>1 DEF ClientInv, QueueType
<1>3. status[s] = "running" /\ ~placed[s] /\ num_completion_tokens(s) # MaxTokens
  <2>1. Preempt(s)
    BY <1>2 DEF Evict
  <2> QED
    BY <2>1 DEF Preempt, Finished
<1>4. num_completion_tokens(s) < MaxTokens
  BY <1>3, BlockManagerAssumption DEF LengthInv
<1>5. SeqLen(s) \in Nat \ {0} /\ PagesFor(SeqLen(s)) <= NumKvBlocks
  BY <1>3, <1>4, SequenceFits
<1>6. SeqLen(s) % BlockSize = 1 /\ free_block_ids = <<>>
  BY <1>1, <1>2 DEF can_append
<1>7. \A r \in Request : status[r] = "running" => r = s
  <2>1. \A r \in Request : r \notin Batch /\ r \notin Range(running)
    BY DEF Batch, Range
  <2> QED
    BY <1>1, <1>2, <2>1 DEF QueueInv, Owned, Taken
<1>8. NumKvBlocks <= Len(block_table[s])
  BY <1>1, <1>6, <1>7, AloneInPool
<1>9. Len(block_table[s]) = PagesFor(SeqLen(s) - 1)
  BY <1>3 DEF FitInv, FitsOnGpu, Slotted
<1>10. PagesFor(SeqLen(s)) = PagesFor(SeqLen(s) - 1) + 1
  BY <1>5, <1>6, NextPage
<1>11. PagesFor(SeqLen(s) - 1) \in Nat
  <2>1. \A n \in Nat : PagesFor(n) \in Nat
    BY BlockManagerAssumption DEF PagesFor
  <2>2. SeqLen(s) - 1 \in Nat
    BY <1>5
  <2> QED
    BY <2>1, <2>2
<1> QED
  BY <1>5, <1>8, <1>9, <1>10, <1>11, BlockManagerAssumption

LEMMA FindsWorkStep ==
  ASSUME ClientInv, PlaceInv, QueueInv, PoolInv, FitInv, CachedInv, LengthInv, PlacedInv,
         FindsWork, RequestsFit, [SchedulerNext]_allVars
  PROVE  FindsWork'
<1>1. CallPlace
  BY DEF PlaceInv
<1>2. CASE \E s \in Request : Add(s)
  BY <1>2 DEF Add, BetweenSteps, FindsWork
<1>3. CASE Schedule
  BY <1>3 DEF Schedule, Goto, queueVars, is_finished, FindsWork
<1>4. CASE ResumePrefill \/ ResumeEnd \/ Admit
  <2>1. phase \in {"resume", "admit"} /\ phase' \in {"resume", "admit"} /\ UNCHANGED queueVars
    BY <1>4 DEF ResumePrefill, ResumeEnd, Admit, Goto
  <2> QED
    BY <2>1 DEF queueVars, is_finished, FindsWork
<1>5. CASE AdmitStep
  <2>1. op = "allocate" /\ UNCHANGED phase
        /\ (UNCHANGED queueVars \/ running' = Append(running, cur))
    BY <1>5 DEF AdmitStep, AllocateStep, AllocateMiss, AllocateShared, AllocateRevived
  <2>2. phase = "admit"
    BY <1>1, <2>1 DEF CallPlace
  <2>3. running' = Append(running, cur) => running' # <<>>
    <3>1. running \in Seq(Request) /\ cur \in Request
      BY <2>1, BlockManagerAssumption DEF ClientInv, QueueType, TypeInv, TypeOK
    <3> QED
      BY <3>1, AppendType
  <2> QED
    BY <2>1, <2>2, <2>3 DEF queueVars, is_finished, FindsWork
<1>6. CASE AdmitEnd
  <2>1. phase' \in {"run", "swap_in"} /\ UNCHANGED queueVars
        /\ (phase' = "swap_in" => scheduled_seqs = <<>>)
    BY <1>6 DEF AdmitEnd, Goto
  <2>2. phase' = "swap_in" => running # <<>> \/ swapped # <<>>
    BY <1>6, <2>1, AdmitsWork
  <2> QED
    BY <2>1, <2>2 DEF queueVars, FindsWork
<1>7. CASE SwapIn
  BY <1>7 DEF SwapIn, schedulerVars, queueVars, batchVars, is_finished, FindsWork
<1>8. CASE SwapInIteration
  <2>1. op = "swap_in" /\ UNCHANGED phase
        /\ (UNCHANGED queueVars \/ running' = Append(running, cur))
    BY <1>8 DEF SwapInIteration, SwapInStep
  <2>2. phase = "swap_in"
    BY <1>1, <2>1 DEF CallPlace
  <2>3. running' = Append(running, cur) => running' # <<>>
    <3>1. running \in Seq(Request) /\ cur \in Request
      BY <2>1, BlockManagerAssumption DEF ClientInv, QueueType, TypeInv, TypeOK
    <3> QED
      BY <3>1, AppendType
  <2> QED
    BY <2>1, <2>2, <2>3 DEF queueVars, FindsWork
<1>9. CASE SwapInEnd
  <2>1. phase' = "decode" /\ UNCHANGED queueVars
    BY <1>9 DEF SwapInEnd, Goto
  <2>2. running # <<>>
    BY <1>9, SwapsInWork
  <2> QED
    BY <2>1, <2>2 DEF queueVars, FindsWork
<1>10. CASE PickDecode
  <2>1. phase' = "decode" /\ seq' = Head(running) /\ running # <<>>
    BY <1>10 DEF PickDecode
  <2>2. seq' \in Request
    BY <2>1, EndsType DEF ClientInv, QueueType
  <2> QED
    BY <2>1, <2>2, BlockManagerAssumption DEF FindsWork
<1>11. CASE Evict
  <2>1. phase' = "decode" /\ UNCHANGED scheduled_seqs /\ seq # NoRequest
        /\ (UNCHANGED seq \/ running = <<>>)
    BY <1>11 DEF Evict, Deciding, batchVars
  <2>2. running = <<>> => scheduled_seqs # <<>>
    BY <1>11, KeepsLast
  <2> QED
    BY <2>1, <2>2 DEF FindsWork
<1>12. CASE EvictSwapStep \/ EvictDropStep
  <2>1. phase = "decode" /\ UNCHANGED <<phase, scheduled_seqs, seq, running>>
    BY <1>1, <1>12 DEF EvictSwapStep, SwapOutStep, EvictDropStep, CallPlace, batchVars
  <2> QED
    BY <2>1 DEF FindsWork
<1>13. CASE Decode
  BY <1>13 DEF Decode, schedulerVars, queueVars, batchVars, is_finished, FindsWork
<1>14. CASE DecodeStep
  <2>1. op = "may_append" /\ UNCHANGED <<phase, running>>
        /\ (UNCHANGED <<scheduled_seqs, seq>> \/ scheduled_seqs' = Append(scheduled_seqs, cur))
    BY <1>14 DEF DecodeStep, AppendStep, AppendNewBlock, AppendFillsBlock, AppendInside,
                 AppendRaises, Appending, queueVars
  <2>2. phase = "decode"
    BY <1>1, <2>1 DEF CallPlace
  <2>3. scheduled_seqs' = Append(scheduled_seqs, cur) => scheduled_seqs' # <<>>
    <3>1. scheduled_seqs \in Seq(Request) /\ cur \in Request
      BY <2>1, BlockManagerAssumption DEF ClientInv, QueueType, TypeInv, TypeOK
    <3> QED
      BY <3>1, AppendType
  <2> QED
    BY <2>1, <2>2, <2>3 DEF FindsWork
<1>15. CASE DecodeEnd
  BY <1>15 DEF DecodeEnd, Goto, FindsWork
<1>16. CASE NothingScheduled
  BY <1>16, SchedulerAssumption DEF NothingScheduled, DecodeLoopDone, FindsWork
<1>17. CASE Run \/ Record \/ RecordEnd
  <2>1. phase' \in {"slots differ", "empty batch", "record", "postprocess"}
    BY <1>17 DEF Run, Record, RecordEnd, Goto
  <2> QED
    BY <2>1 DEF FindsWork
<1>18. CASE \/ PostSkip \/ (\E t \in Token : PostAppend(t)) \/ PostContinue
            \/ PostFinish \/ PostFinishStep \/ PostEnd
  <2>1. phase' \in {"idle", "postprocess"}
    BY <1>18 DEF PostSkip, PostAppend, PostContinue, PostFinish, PostFinishStep, PostEnd,
                 Postprocessing, Goto, schedulerVars
  <2> QED
    BY <2>1 DEF FindsWork
<1>19. CASE AllDone \/ UNCHANGED allVars
  BY <1>19 DEF AllDone, allVars, schedulerVars, queueVars, batchVars, is_finished, FindsWork
<1> QED
  BY <1>2, <1>3, <1>4, <1>5, <1>6, <1>7, <1>8, <1>9, <1>10, <1>11, <1>12, <1>13, <1>14, <1>15,
     <1>16, <1>17, <1>18, <1>19 DEF SchedulerNext, EngineStep

(***************************************************************************)
(* For requests that fit the pool and the budget, schedule's assertion     *)
(* that it has scheduled something never fails, with or without chunked    *)
(* prefill, however the sequences compete, are evicted and start over.     *)
(***************************************************************************)
THEOREM AlwaysFindsWork == RequestsFit => (SchedulerSpec => []FindsWork)
<1> SUFFICES ASSUME RequestsFit PROVE SchedulerSpec => []FindsWork
  OBVIOUS
<1>1. SchedulerInit => FindsWork
  BY DEF SchedulerInit, FindsWork
<1>2. ClientInv /\ PlaceInv /\ QueueInv /\ PoolInv /\ FitInv /\ CachedInv /\ LengthInv
        /\ PlacedInv /\ FindsWork /\ [SchedulerNext]_allVars => FindsWork'
  BY FindsWorkStep
<1>3. SchedulerSpec => Spec
  BY BlockManagerImplemented DEF ImplementsBlockManager
<1> QED
  BY <1>1, <1>2, <1>3, ClientInvariant, PlaceInvariant, QueueInvariant, PoolInvariant,
     FitInvariant, CachedInvariant, LengthInvariant, PlacedInvariant, PTL DEF SchedulerSpec

(***************************************************************************)
(* Without chunked prefill, for requests that fit the pool and the budget, *)
(* no assertion of a step fails: schedule finds something to run, however  *)
(* the sequences are evicted, and store_kvcache has one slot per token.    *)
(***************************************************************************)
THEOREM StepAssertionsAlwaysHold ==
  RequestsFit /\ ~EnableChunkedPrefill => (SchedulerSpec => []StepAssertionsHold)
<1> SUFFICES ASSUME RequestsFit, ~EnableChunkedPrefill
             PROVE  SchedulerSpec => []StepAssertionsHold
  OBVIOUS
<1>1. FindsWork /\ SlotsAgree => StepAssertionsHold
  BY DEF FindsWork, SlotsAgree, StepAssertionsHold
<1>2. SchedulerSpec => []FindsWork
  BY AlwaysFindsWork
<1>3. SchedulerSpec => []SlotsAgree
  BY SlotsAlwaysAgree
<1> QED
  BY <1>1, <1>2, <1>3, PTL

-----------------------------------------------------------------------------
(* The number of tokens of a batch.                                        *)

LEMMA BatchSum ==
  ASSUME IsFiniteSet(Batch)
  PROVE  TokensInBatch = SumOf([s \in Batch |-> QueryLen(s)], Batch)
<1> DEFINE f == [s \in Batch |-> QueryLen(s)]
           Body(g, s) == IF s = {} THEN 0 ELSE QueryLen(Choice(s)) + g[s \ {Choice(s)}]
           Sums(g) == g = [s \in SUBSET Batch |-> Body(g, s)]
           g == CHOOSE k : Sums(k)
<1>1. TokensInBatch = g[Batch]
  BY DEF TokensInBatch, MapThenSumSet, MapThenFoldSet, Choice
<1>2. \A k : \A s \in SUBSET Batch :
        Body(k, s) = IF s = {} THEN 0 ELSE f[Choice(s)] + k[s \ {Choice(s)}]
  BY ChoiceInSet
<1>3. ASSUME NEW k
      PROVE  Sums(k) <=> IsSum(k, f, Batch)
  <2> HIDE DEF Body, f
  <2> QED
    BY <1>2 DEF IsSum
<1> HIDE DEF Sums, f
<1>4. \E k : Sums(k)
  BY <1>3, SumExists
<1>5. Sums(g)
  BY <1>4
<1> HIDE DEF g
<1>6. PICK h : IsSum(h, f, Batch) /\ SumOf(f, Batch) = h[Batch]
  BY SumOfIs
<1>7. IsSum(g, f, Batch)
  BY <1>3, <1>5
<1>8. g[Batch] = h[Batch]
  BY <1>6, <1>7, SumAgrees
<1> QED
  BY <1>1, <1>6, <1>8 DEF f

(***************************************************************************)
(* Without chunks, what schedule has counted when it comes to an end is    *)
(* what the batch computes: each prompt is charged with the tokens that    *)
(* allocate did not find in the prefix cache.                              *)
(***************************************************************************)
Uncomputed(s) == SeqLen(s) - num_cached_tokens[s]

BatchTokens == SumOf([s \in Batch |-> Uncomputed(s)], Batch)

ChargeInv ==
  ~EnableChunkedPrefill /\ (phase = "admit" \/ (phase = "run" /\ is_prefill)) =>
    BatchTokens = num_batched_tokens

\* Steps that change neither the batch nor its sequences.
LEMMA SameTokens ==
  ASSUME UNCHANGED scheduled_seqs, \A s \in Batch : Uncomputed(s)' = Uncomputed(s)
  PROVE  BatchTokens' = BatchTokens
<1>1. Batch' = Batch
  BY DEF Batch
<1>2. [s \in Batch |-> Uncomputed(s)]' = [s \in Batch |-> Uncomputed(s)]
  BY <1>1
<1> QED
  BY <1>1, <1>2 DEF BatchTokens

LEMMA AdmitEntered ==
  ASSUME PlaceInv, [SchedulerNext]_allVars, phase' \in {"resume", "admit"}
  PROVE  \/ Schedule
         \/ ResumePrefill \/ ResumeEnd
         \/ Admit
         \/ AdmitStep
         \/ phase \in {"resume", "admit"} /\ UNCHANGED allVars
<1>1. CallPlace
  BY DEF PlaceInv
<1>2. CASE AllDone \/ UNCHANGED allVars
  BY <1>2 DEF AllDone, allVars, schedulerVars
<1>3. CASE \/ (\E s \in Request : Add(s)) \/ AdmitEnd
           \/ SwapIn \/ SwapInIteration \/ SwapInEnd
  <2>1. phase' \notin {"resume", "admit"}
    BY <1>1, <1>3 DEF Add, BetweenSteps, AdmitEnd, SwapIn,
       SwapInIteration, SwapInStep, SwapInEnd, Goto, schedulerVars, CallPlace
  <2> QED
    BY <2>1
<1>4. CASE \/ PickDecode \/ Evict \/ EvictSwapStep \/ EvictDropStep \/ Decode \/ DecodeStep
           \/ DecodeEnd \/ NothingScheduled
  <2>1. phase' \notin {"resume", "admit"}
    BY <1>1, <1>4 DEF PickDecode, Evict, Deciding, EvictSwapStep, SwapOutStep, EvictDropStep,
       Decode, DecodeStep, AppendStep, AppendNewBlock, AppendFillsBlock, AppendInside,
       AppendRaises, Appending, DecodeEnd, NothingScheduled, Goto, schedulerVars, CallPlace
  <2> QED
    BY <2>1
<1>5. CASE \/ Run \/ Record \/ RecordEnd \/ PostSkip \/ (\E t \in Token : PostAppend(t))
           \/ PostContinue \/ PostFinish \/ PostFinishStep \/ PostEnd
  <2>1. phase' \notin {"resume", "admit"}
    BY <1>5 DEF Run, Record, RecordEnd, PostSkip, PostAppend, Postprocessing, PostContinue,
       PostFinish, PostFinishStep, PostEnd, Goto, schedulerVars
  <2> QED
    BY <2>1
<1> QED
  BY <1>2, <1>3, <1>4, <1>5 DEF SchedulerNext, EngineStep

LEMMA AdmitStepCharge ==
  ASSUME ClientInv, PlaceInv, ManagerInv, CacheInv, CachedInv, PlacedInv, ChargeInv,
         ~EnableChunkedPrefill, AdmitStep
  PROVE  BatchTokens' = num_batched_tokens'
<1>1. op = "allocate" /\ phase = "admit" /\ AllocateStep
  BY DEF AdmitStep, AllocateStep, AllocateMiss, AllocateShared, AllocateRevived, PlaceInv,
         CallPlace
<1>2. PICK r \in Request : r = cur
  BY <1>1, BlockManagerAssumption DEF ClientInv, TypeInv, TypeOK
<1>3. /\ UNCHANGED token_ids
      /\ \A u \in Request \ {r} : num_cached_tokens'[u] = num_cached_tokens[u]
  BY <1>1, <1>2, AllocateCount
<1>4. scheduled_seqs \in Seq(Request) /\ Batch \subseteq Request /\ r \notin Batch
      /\ IsInjective(scheduled_seqs)
  <2>1. status[r] = "waiting"
    BY <1>1, <1>2 DEF ClientInv, TypeInv, MethodHasRoom
  <2>2. InFlight = Batch
    BY <1>1 DEF InFlight
  <2>3. scheduled_seqs \in Seq(Request) /\ Batch \subseteq Request
    BY DEF ClientInv, QueueType, Batch, Range
  <2>4. IsInjective(scheduled_seqs) /\ r \notin Batch
    BY <2>1, <2>2 DEF PlacedInv, FlightInv
  <2> QED
    BY <2>3, <2>4
<1>5. \A s \in Batch : Uncomputed(s)' = Uncomputed(s)
  BY <1>3, <1>4 DEF Uncomputed, SeqLen
<1>6. BatchTokens = num_batched_tokens
  BY <1>1 DEF ChargeInv
<1>7. CASE op' # "idle"
  <2>1. UNCHANGED <<scheduled_seqs, num_batched_tokens>>
    BY <1>7 DEF AdmitStep
  <2> QED
    BY <1>5, <1>6, <2>1, SameTokens
<1>8. CASE op' = "idle"
  <2>1. /\ scheduled_seqs' = Append(scheduled_seqs, r)
        /\ num_batched_tokens' = num_batched_tokens + Charge(r)
    BY <1>2, <1>8 DEF AdmitStep
  <2>2. Batch' = Batch \cup {r}
    BY <1>4, <2>1, AppendRange DEF Batch
  <2>3. Charge(r) = Uncomputed(r)'
    BY <1>3 DEF Charge, Uncomputed, SeqLen
  <2> DEFINE f == [s \in Batch |-> Uncomputed(s)]
             g == [s \in Batch \cup {r} |-> Uncomputed(s)']
  <2>4. IsFiniteSet(Batch)
    BY <1>4, InjectiveLength DEF Batch
  <2>5. \A s \in Batch : f[s] = g[s]
    BY <1>5
  <2>6. \A s \in Request : Uncomputed(s)' \in Int
    <3>1. TypeOK'
      BY <1>1, AllocateStepType DEF ClientInv, TypeInv
    <3>2. \A s \in Request : num_cached_tokens'[s] \in Nat /\ token_ids'[s] \in Seq(Token)
      BY <3>1 DEF TypeOK
    <3> QED
      BY <3>2, LenProperties DEF Uncomputed, SeqLen
  <2>7. \A s \in Batch \cup {r} : g[s] \in Int
    BY <1>4, <2>6
  <2>8. g[r] = Uncomputed(r)'
    OBVIOUS
  <2>9. BatchTokens = SumOf(f, Batch) /\ BatchTokens' = SumOf(g, Batch \cup {r})
    BY <2>2 DEF BatchTokens
  <2> HIDE DEF f, g
  <2>10. SumOf(f, Batch) = SumOf(g, Batch)
    BY <2>4, <2>5, SumOfAgrees
  <2>11. SumOf(g, Batch \cup {r}) = SumOf(g, Batch) + g[r]
    BY <1>4, <2>4, <2>7, SumOfAdds
  <2> QED
    BY <1>6, <2>1, <2>3, <2>8, <2>9, <2>10, <2>11
<1> QED
  BY <1>7, <1>8

LEMMA ChargeStep ==
  ASSUME ClientInv, PlaceInv, ManagerInv, CacheInv, CachedInv, PlacedInv, ChargeInv,
         [SchedulerNext]_allVars
  PROVE  ChargeInv'
<1> SUFFICES ASSUME ~EnableChunkedPrefill, phase' = "admit" \/ (phase' = "run" /\ is_prefill')
             PROVE  BatchTokens' = num_batched_tokens'
  BY DEF ChargeInv
<1>1. CASE Schedule
  <2>1. scheduled_seqs' = <<>> /\ num_batched_tokens' = 0
    BY <1>1 DEF Schedule
  <2>2. Batch' = {}
    BY <2>1 DEF Batch, Range
  <2> QED
    BY <2>1, <2>2, SumOfEmpty DEF BatchTokens
<1>2. CASE Admit \/ AdmitEnd
  <2>1. phase = "admit"
        /\ UNCHANGED <<token_ids, num_cached_tokens, scheduled_seqs, num_batched_tokens>>
    BY <1>2 DEF Admit, AdmitEnd, BeginAllocate, seqVars, vars
  <2> QED
    BY <2>1, SameTokens DEF ChargeInv, Uncomputed, SeqLen
<1>3. CASE UNCHANGED allVars
  <2>1. UNCHANGED <<token_ids, num_cached_tokens, scheduled_seqs, num_batched_tokens, phase,
                    is_prefill>>
    BY <1>3 DEF allVars, vars, seqVars, schedulerVars, batchVars
  <2> QED
    BY <2>1, SameTokens DEF ChargeInv, Uncomputed, SeqLen
<1>4. CASE phase' = "admit"
  <2>1. ~ResumePrefill /\ ~ResumeEnd
    BY DEF ResumePrefill, ResumeEnd, PlaceInv, SeqPlace
  <2> QED
    BY <1>1, <1>2, <1>3, <1>4, <2>1, AdmitEntered, AdmitStepCharge
<1>5. CASE phase' = "run" /\ is_prefill'
  <2>1. ~DecodeEnd
    BY <1>5 DEF DecodeEnd
  <2> QED
    BY <1>2, <1>3, <1>5, <2>1, RunEntered
<1> QED
  BY <1>4, <1>5

LEMMA ChargeInvariant == SchedulerSpec => []ChargeInv
<1>1. SchedulerInit => ChargeInv
  BY DEF SchedulerInit, ChargeInv
<1>2. ClientInv /\ PlaceInv /\ ManagerInv /\ CacheInv /\ CachedInv /\ PlacedInv /\ ChargeInv
        /\ [SchedulerNext]_allVars => ChargeInv'
  BY ChargeStep
<1> QED
  BY <1>1, <1>2, ManagerUnderScheduler, ClientInvariant, PlaceInvariant, BudgetInvariant,
     PlacedInvariant, PTL DEF SchedulerSpec

(***************************************************************************)
(* With chunks, run computes the chunk of each sequence anew.  What        *)
(* schedule has counted covers these chunks, except that the last one may  *)
(* have been cut to what was left of the budget, which is then used up and *)
(* leaves no room for another.                                             *)
(***************************************************************************)
ChunkTokens == SumOf([s \in Batch |-> RunnerChunk(s)], Batch)

\* A sequence that allocate is at work for has been charged, but is not in the batch.
BeingAdmitted == IF op = "allocate" THEN RunnerChunk(cur) ELSE 0

Covered(n, counted) ==
  \/ n <= counted
  \/ counted = MaxNumBatchedTokens /\ n < MaxNumBatchedTokens + MaxChunkSize

ChunkInv ==
  EnableChunkedPrefill /\ (phase \in {"resume", "admit"} \/ (phase = "run" /\ is_prefill)) =>
    Covered(ChunkTokens + BeingAdmitted, num_batched_tokens)

LEMMA RunnerChunkType ==
  ASSUME ClientInv
  PROVE  \A s \in Request : RunnerChunk(s) \in Int
<1>1. /\ num_computed_tokens \in [Request -> Nat]
      /\ num_prompt_tokens \in [Request -> Nat]
  BY DEF ClientInv, QueueType, TypeInv, TypeOK
<1> QED
  BY <1>1, SchedulerAssumption DEF RunnerChunk, Least

\* The batch is a finite set of requests.
LEMMA BatchType ==
  ASSUME ClientInv, PlacedInv
  PROVE  /\ scheduled_seqs \in Seq(Request) /\ IsInjective(scheduled_seqs)
         /\ Batch \subseteq Request /\ IsFiniteSet(Batch)
<1>1. scheduled_seqs \in Seq(Request) /\ IsInjective(scheduled_seqs)
  BY DEF ClientInv, QueueType, PlacedInv, FlightInv
<1> QED
  BY <1>1, InjectiveLength DEF Batch, Range

LEMMA ChunkTokensType ==
  ASSUME ClientInv, PlacedInv
  PROVE  ChunkTokens \in Int
<1>1. \A s \in Batch : [u \in Batch |-> RunnerChunk(u)][s] \in Int
  BY BatchType, RunnerChunkType
<1> DEFINE f == [u \in Batch |-> RunnerChunk(u)]
<1> HIDE DEF f
<1> QED
  BY <1>1, BatchType, SumOfType DEF ChunkTokens, f

\* Steps that change neither the batch nor the progress of its sequences.
LEMMA SameChunks ==
  ASSUME UNCHANGED <<scheduled_seqs, num_computed_tokens, num_prompt_tokens>>
  PROVE  ChunkTokens' = ChunkTokens /\ \A s : RunnerChunk(s)' = RunnerChunk(s)
<1>1. Batch' = Batch
  BY DEF Batch
<1>2. \A s : RunnerChunk(s)' = RunnerChunk(s)
  BY DEF RunnerChunk
<1>3. [s \in Batch |-> RunnerChunk(s)]' = [s \in Batch |-> RunnerChunk(s)]
  BY <1>1, <1>2
<1> QED
  BY <1>1, <1>2, <1>3 DEF ChunkTokens

\* A sequence joins the batch.
LEMMA ChunkTokensJoin ==
  ASSUME ClientInv, PlacedInv, NEW r \in Request, r \notin Batch,
         scheduled_seqs' = Append(scheduled_seqs, r),
         UNCHANGED <<num_computed_tokens, num_prompt_tokens>>
  PROVE  ChunkTokens' = ChunkTokens + RunnerChunk(r)
<1>1. \A s : RunnerChunk(s)' = RunnerChunk(s)
  BY DEF RunnerChunk
<1>2. Batch' = Batch \cup {r}
  BY BatchType, AppendRange DEF Batch
<1> DEFINE f == [s \in Batch |-> RunnerChunk(s)]
           g == [s \in Batch \cup {r} |-> RunnerChunk(s)]
<1>3. [s \in Batch |-> RunnerChunk(s)]' = g
  BY <1>1, <1>2
<1>4. ChunkTokens = SumOf(f, Batch) /\ ChunkTokens' = SumOf(g, Batch \cup {r})
  BY <1>2, <1>3 DEF ChunkTokens
<1>5. \A s \in Batch : f[s] = g[s]
  OBVIOUS
<1>6. \A s \in Batch \cup {r} : g[s] \in Int
  BY BatchType, RunnerChunkType
<1>7. g[r] = RunnerChunk(r)
  OBVIOUS
<1> HIDE DEF f, g
<1>8. SumOf(f, Batch) = SumOf(g, Batch)
  BY <1>5, BatchType, SumOfAgrees
<1>9. SumOf(g, Batch \cup {r}) = SumOf(g, Batch) + g[r]
  BY <1>6, BatchType, SumOfAdds
<1> QED
  BY <1>4, <1>7, <1>8, <1>9

\* A chunk c is counted for a sequence of which run computes no more than n tokens.
LEMMA ChargeCovers ==
  ASSUME NEW k \in Int, BudgetInv, Covered(k, num_batched_tokens),
         NEW n \in Int, Chunk(n) > 0,
         NEW c \in Int, c <= n, c <= MaxChunkSize
  PROVE  Covered(k + c, num_batched_tokens + Chunk(n))
<1>1. num_batched_tokens \in Int /\ MaxNumBatchedTokens \in Int /\ MaxChunkSize \in Int
  BY SchedulerAssumption DEF BudgetInv
<1>2. PICK d : d = Chunk(n)
  OBVIOUS
<1>3. /\ d \in Int /\ d > 0 /\ d <= MaxNumBatchedTokens - num_batched_tokens
      /\ d = n \/ d = MaxChunkSize \/ d = MaxNumBatchedTokens - num_batched_tokens
  BY <1>1, <1>2 DEF Chunk, Least
<1>4. k <= num_batched_tokens
  BY <1>1, <1>3 DEF Covered
<1>5. CASE c <= d
  BY <1>1, <1>2, <1>3, <1>4, <1>5 DEF Covered
<1>6. CASE c > d
  BY <1>1, <1>2, <1>3, <1>4, <1>6 DEF Covered
<1> QED
  BY <1>3, <1>5, <1>6

LEMMA ResumeChunks ==
  ASSUME ClientInv, PlaceInv, BudgetInv, PlacedInv, ChunkInv, ResumePrefill
  PROVE  ChunkInv'
<1>1. /\ phase = "resume" /\ todo # <<>> /\ EnableChunkedPrefill
      /\ op = "idle" /\ op' = "idle"
      /\ UNCHANGED <<num_computed_tokens, num_prompt_tokens>>
  BY DEF ResumePrefill, vars, seqVars, callVars, PlaceInv, CallPlace, SeqPlace, ClientInv, TypeInv,
         TypeOK, Methods
<1>2. ChunkTokens \in Int /\ Covered(ChunkTokens, num_batched_tokens)
  BY <1>1, ChunkTokensType DEF ChunkInv, BeingAdmitted
<1>3. PICK r \in Request : r = Head(todo)
  BY <1>1, EndsType DEF ClientInv, QueueType
<1>4. CASE UNCHANGED <<scheduled_seqs, num_batched_tokens>>
  <2>1. ChunkTokens' = ChunkTokens
    BY <1>1, <1>4, SameChunks
  <2> QED
    BY <1>1, <1>2, <1>4, <2>1 DEF ChunkInv, BeingAdmitted, Covered
<1>5. CASE /\ ~is_prefill_finished(r)
           /\ Chunk(remaining_prefill_tokens(r)) > 0
           /\ num_batched_tokens' = num_batched_tokens + Chunk(remaining_prefill_tokens(r))
           /\ scheduled_seqs' = Append(scheduled_seqs, r)
  <2>1. r \notin Batch
    BY <1>1, <1>3, TailRange DEF PlacedInv, ResumeInv, ClientInv, QueueType
  <2>2. ChunkTokens' = ChunkTokens + RunnerChunk(r)
    BY <1>1, <1>5, <2>1, ChunkTokensJoin
  <2>3. /\ RunnerChunk(r) \in Int /\ RunnerChunk(r) <= MaxChunkSize
        /\ remaining_prefill_tokens(r) \in Int
        /\ RunnerChunk(r) <= remaining_prefill_tokens(r)
    <3>1. num_computed_tokens[r] \in Nat /\ num_prompt_tokens[r] \in Nat
      BY DEF ClientInv, QueueType, TypeInv, TypeOK
    <3> QED
      BY <1>5, <3>1, SchedulerAssumption DEF RunnerChunk, Least, remaining_prefill_tokens
  <2>4. Covered(ChunkTokens + RunnerChunk(r),
                num_batched_tokens + Chunk(remaining_prefill_tokens(r)))
    BY <1>2, <1>5, <2>3, ChargeCovers
  <2> QED
    BY <1>1, <1>2, <1>5, <2>2, <2>3, <2>4 DEF ChunkInv, BeingAdmitted, Covered
<1> QED
  BY <1>3, <1>4, <1>5 DEF ResumePrefill

LEMMA AdmitChunks ==
  ASSUME ClientInv, PlaceInv, CachedInv, LengthInv, BudgetInv, PlacedInv, ChunkInv, Admit
  PROVE  ChunkInv'
<1> SUFFICES ASSUME EnableChunkedPrefill PROVE ChunkInv'
  BY DEF ChunkInv
<1>1. /\ phase = "admit" /\ op = "idle" /\ op' = "allocate"
      /\ cur' = Head(waiting) /\ status[Head(waiting)] = "waiting" /\ waiting # <<>>
      /\ WithinBudget(Head(waiting))
      /\ UNCHANGED <<token_ids, num_prompt_tokens, num_cached_tokens, num_computed_tokens,
                     scheduled_seqs>>
      /\ num_batched_tokens' =
           num_batched_tokens + Chunk(SeqLen(cur') - num_cached_tokens[cur'])
  BY DEF Admit, Admissible, BeginAllocate, Idle, Call, seqVars
<1>2. ChunkTokens \in Int /\ Covered(ChunkTokens, num_batched_tokens)
  BY <1>1, ChunkTokensType DEF ChunkInv, BeingAdmitted
<1>3. PICK r \in Request : r = Head(waiting)
  BY <1>1, EndsType DEF ClientInv, QueueType
<1>4. PICK n \in Int : n = SeqLen(r) - num_cached_tokens[r]
  <2>1. SeqLen(r) \in Nat /\ num_cached_tokens[r] \in Nat
    BY SettledWithinLength DEF ClientInv, TypeInv, TypeOK
  <2> QED
    BY <2>1
<1>5. Chunk(n) > 0
  BY <1>1, <1>3, <1>4 DEF WithinBudget
<1>6. /\ RunnerChunk(r) \in Int /\ RunnerChunk(r) <= MaxChunkSize
      /\ RunnerChunk(r) <= n
  <2>1. num_computed_tokens[r] \in Nat /\ num_prompt_tokens[r] \in Nat /\ SeqLen(r) \in Nat
    BY SettledWithinLength DEF ClientInv, QueueType, TypeInv, TypeOK
  <2>2. num_cached_tokens[r] = 0
    <3>1. r # cur
      BY <1>1, BlockManagerAssumption DEF ClientInv, TypeInv, TypeOK
    <3> QED
      BY <1>1, <1>3, <3>1 DEF CachedInv
  <2>3. SeqLen(r) >= num_prompt_tokens[r]
    BY <1>1, <1>3, <2>1 DEF LengthInv, num_completion_tokens
  <2> QED
    BY <1>4, <2>1, <2>2, <2>3, SchedulerAssumption DEF RunnerChunk, Least
<1>7. ChunkTokens' = ChunkTokens /\ BeingAdmitted' = RunnerChunk(r)
  BY <1>1, <1>3, SameChunks DEF BeingAdmitted
<1>8. Covered(ChunkTokens + RunnerChunk(r), num_batched_tokens + Chunk(n))
  BY <1>2, <1>5, <1>6, ChargeCovers
<1>9. num_batched_tokens' = num_batched_tokens + Chunk(n)
  BY <1>1, <1>3, <1>4
<1> QED
  BY <1>7, <1>8, <1>9 DEF ChunkInv, Covered

LEMMA AdmitStepChunks ==
  ASSUME ClientInv, PlaceInv, PlacedInv, ChunkInv, AdmitStep
  PROVE  ChunkInv'
<1> SUFFICES ASSUME EnableChunkedPrefill PROVE ChunkInv'
  BY DEF ChunkInv
<1>1. /\ op = "allocate" /\ phase = "admit"
      /\ UNCHANGED <<num_computed_tokens, num_prompt_tokens>>
      /\ op' # "idle" => op' = op /\ cur' = cur
  BY DEF AdmitStep, AllocateStep, AllocateMiss, AllocateShared, AllocateRevived, AddToTable,
         Return, Call, PlaceInv, CallPlace
<1>2. PICK r \in Request : r = cur
  BY <1>1, BlockManagerAssumption DEF ClientInv, TypeInv, TypeOK
<1>3. /\ ChunkTokens \in Int /\ RunnerChunk(r) \in Int
      /\ Covered(ChunkTokens + RunnerChunk(r), num_batched_tokens)
  BY <1>1, <1>2, ChunkTokensType, RunnerChunkType DEF ChunkInv, BeingAdmitted
<1>4. CASE op' # "idle"
  <2>1. UNCHANGED <<scheduled_seqs, num_batched_tokens>>
    BY <1>4 DEF AdmitStep
  <2>2. ChunkTokens' = ChunkTokens /\ BeingAdmitted' = RunnerChunk(r)
    BY <1>1, <1>2, <1>4, <2>1, SameChunks DEF BeingAdmitted
  <2> QED
    BY <1>3, <2>1, <2>2 DEF ChunkInv, Covered
<1>5. CASE op' = "idle"
  <2>1. /\ scheduled_seqs' = Append(scheduled_seqs, r)
        /\ num_batched_tokens' = num_batched_tokens + 0
    BY <1>2, <1>5 DEF AdmitStep, Charge
  <2>2. r \notin Batch
    <3>1. status[r] = "waiting" /\ InFlight = Batch
      BY <1>1, <1>2 DEF ClientInv, TypeInv, MethodHasRoom, InFlight
    <3> QED
      BY <3>1 DEF PlacedInv, FlightInv
  <2>3. ChunkTokens' = ChunkTokens + RunnerChunk(r) /\ BeingAdmitted' = 0
    BY <1>1, <1>5, <2>1, <2>2, ChunkTokensJoin DEF BeingAdmitted
  <2>4. num_batched_tokens' = num_batched_tokens
    BY <2>1 DEF ClientInv, QueueType
  <2> QED
    BY <1>3, <2>3, <2>4 DEF ChunkInv, Covered
<1> QED
  BY <1>4, <1>5

LEMMA ChunkStep ==
  ASSUME ClientInv, PlaceInv, CachedInv, LengthInv, BudgetInv, PlacedInv, ChunkInv,
         [SchedulerNext]_allVars
  PROVE  ChunkInv'
<1> SUFFICES ASSUME EnableChunkedPrefill,
                    phase' \in {"resume", "admit"} \/ (phase' = "run" /\ is_prefill')
             PROVE  ChunkInv'
  BY DEF ChunkInv
<1>1. CASE Schedule
  <2>1. scheduled_seqs' = <<>> /\ num_batched_tokens' = 0 /\ op' = "idle"
    BY <1>1 DEF Schedule, BetweenSteps, Idle, vars, callVars
  <2>2. Batch' = {}
    BY <2>1 DEF Batch, Range
  <2>3. ChunkTokens' = 0 /\ BeingAdmitted' = 0
    BY <2>1, <2>2, SumOfEmpty DEF ChunkTokens, BeingAdmitted
  <2> QED
    BY <2>1, <2>3 DEF ChunkInv, Covered
<1>2. CASE ResumeEnd \/ AdmitEnd \/ UNCHANGED allVars
  <2>1. /\ phase \in {"resume", "admit"} \/ (phase = "run" /\ is_prefill)
        /\ UNCHANGED <<scheduled_seqs, num_batched_tokens, num_computed_tokens,
                       num_prompt_tokens, op, cur>>
    BY <1>2 DEF ResumeEnd, AdmitEnd, allVars, schedulerVars, batchVars, vars, seqVars, callVars
  <2>2. ChunkTokens' = ChunkTokens /\ BeingAdmitted' = BeingAdmitted
    BY <2>1, SameChunks DEF BeingAdmitted
  <2> QED
    BY <2>1, <2>2 DEF ChunkInv, Covered
<1>3. CASE phase' \in {"resume", "admit"}
  BY <1>1, <1>2, <1>3, AdmitEntered, ResumeChunks, AdmitChunks, AdmitStepChunks
<1>4. CASE phase' = "run" /\ is_prefill'
  <2>1. ~DecodeEnd
    BY <1>4 DEF DecodeEnd
  <2> QED
    BY <1>2, <1>4, <2>1, RunEntered
<1> QED
  BY <1>3, <1>4

LEMMA ChunkInvariant == SchedulerSpec => []ChunkInv
<1>1. SchedulerInit => ChunkInv
  BY DEF SchedulerInit, ChunkInv
<1>2. ClientInv /\ PlaceInv /\ CachedInv /\ LengthInv /\ BudgetInv /\ PlacedInv /\ ChunkInv
        /\ [SchedulerNext]_allVars => ChunkInv'
  BY ChunkStep
<1> QED
  BY <1>1, <1>2, ClientInvariant, PlaceInvariant, BudgetInvariant, SampledInvariant,
     PlacedInvariant, PTL DEF SchedulerSpec

\* What run computes of a prefill batch, with chunks and without.
LEMMA RunCounted ==
  ASSUME ClientInv, PlaceInv, PlacedInv, BudgetInv, ChargeInv, ChunkInv,
         phase = "run", is_prefill
  PROVE  /\ TokensInBatch \in Int /\ TokensCounted
         /\ ~EnableChunkedPrefill => TokensInBatch <= MaxNumBatchedTokens
<1>1. num_batched_tokens \in Int /\ num_batched_tokens <= MaxNumBatchedTokens
  BY SchedulerAssumption DEF BudgetInv
<1>2. CASE EnableChunkedPrefill
  <2>1. \A s \in Batch : QueryLen(s) = RunnerChunk(s)
    BY <1>2 DEF QueryLen, ChunkedBatch
  <2>2. TokensInBatch = ChunkTokens
    BY <2>1, BatchType, BatchSum DEF ChunkTokens
  <2>3. BeingAdmitted = 0
    BY DEF BeingAdmitted, PlaceInv, CallPlace
  <2>4. ChunkTokens \in Int /\ Covered(ChunkTokens, num_batched_tokens)
    BY <1>2, <2>3, ChunkTokensType DEF ChunkInv
  <2> QED
    BY <1>2, <2>2, <2>4 DEF TokensCounted, Covered
<1>3. CASE ~EnableChunkedPrefill
  <2>1. \A s \in Batch : QueryLen(s) = Uncomputed(s)
    BY <1>3 DEF QueryLen, ChunkedBatch, Uncomputed
  <2>2. TokensInBatch = BatchTokens
    BY <2>1, BatchType, BatchSum DEF BatchTokens
  <2>3. BatchTokens = num_batched_tokens
    BY <1>3 DEF ChargeInv
  <2> QED
    BY <1>1, <2>2, <2>3 DEF TokensCounted
<1> QED
  BY <1>2, <1>3

(***************************************************************************)
(* schedule's limits: no batch has more than max_num_seqs sequences,       *)
(* though the loop that resumes prefills does not look at it; schedule     *)
(* never counts more than max_num_batched_tokens; and run, which computes  *)
(* the chunks anew without the budget, computes no more than was counted   *)
(* unless the budget is used up, and then less than one chunk more.        *)
(***************************************************************************)
THEOREM LimitsAlwaysKept == SchedulerSpec => []CountedWithinLimits
<1>1. ClientInv /\ PlaceInv /\ PlacedInv /\ LimitInv /\ BudgetInv /\ ChargeInv /\ ChunkInv
        => CountedWithinLimits
  <2> SUFFICES ASSUME ClientInv, PlaceInv, PlacedInv, LimitInv, BudgetInv, ChargeInv, ChunkInv,
                      phase = "run"
               PROVE  /\ Len(scheduled_seqs) <= MaxNumSeqs
                      /\ num_batched_tokens <= MaxNumBatchedTokens
                      /\ is_prefill => TokensCounted
    BY DEF CountedWithinLimits
  <2>1. Len(scheduled_seqs) <= MaxNumSeqs
    BY BatchIsPlaced
  <2>2. num_batched_tokens <= MaxNumBatchedTokens
    BY DEF BudgetInv
  <2> QED
    BY <2>1, <2>2, RunCounted
<1> QED
  BY <1>1, ClientInvariant, PlaceInvariant, PlacedInvariant, LimitInvariant, BudgetInvariant,
     ChargeInvariant, ChunkInvariant, PTL

(***************************************************************************)
(* config.py's limit, where it is kept: without chunked prefill a batch    *)
(* processes at most max_num_batched_tokens tokens, whatever is found in   *)
(* the prefix cache between admitting a prompt and charging for it.  With  *)
(* chunked prefill a batch can exceed it, as far as LimitsAlwaysKept says. *)
(***************************************************************************)
THEOREM TokensAlwaysWithinLimit == SchedulerSpec => []TokensWithinLimit
<1>1. ClientInv /\ PlaceInv /\ PlacedInv /\ BudgetInv /\ ChargeInv /\ ChunkInv
        => TokensWithinLimit
  BY RunCounted DEF TokensWithinLimit
<1> QED
  BY <1>1, ClientInvariant, PlaceInvariant, PlacedInvariant, BudgetInvariant,
     ChargeInvariant, ChunkInvariant, PTL


-----------------------------------------------------------------------------
(* The copies of one step, made one after the other.                       *)

CopyOne(kv, p) == [kv EXCEPT ![p[2]] = kv[p[1]]]

\* g[s] is the cache after the copies whose numbers are in s.
IsCopying(g, kv, pairs) ==
  g = [s \in SUBSET DOMAIN pairs |->
         IF s = {} THEN kv ELSE CopyOne(g[s \ {Max(s)}], pairs[Max(s)])]

LEMMA LastOfNumbers ==
  ASSUME NEW n \in Nat, NEW s \in SUBSET (1 .. n), s # {}
  PROVE  Max(s) \in s /\ \A x \in s : x <= Max(s)
<1>1. \E x \in s : \A y \in s : x >= y
  <2> DEFINE I == {m \in Nat : \A t \in SUBSET (1 .. n) :
                     t # {} /\ (\A y \in t : y <= m) => \E x \in t : \A y \in t : x >= y}
  <2>1. 0 \in I
    <3> SUFFICES ASSUME NEW t \in SUBSET (1 .. n), t # {}, \A y \in t : y <= 0
                 PROVE  FALSE
      OBVIOUS
    <3>1. PICK y \in t : y \in 1 .. n
      OBVIOUS
    <3> QED
      BY <3>1
  <2>2. \A m \in I : m + 1 \in I
    <3> SUFFICES ASSUME NEW m \in I, NEW t \in SUBSET (1 .. n), t # {},
                        \A y \in t : y <= m + 1
                 PROVE  \E x \in t : \A y \in t : x >= y
      OBVIOUS
    <3>1. CASE m + 1 \in t
      BY <3>1
    <3>2. CASE m + 1 \notin t
      <4>1. \A y \in t : y <= m
        BY <3>2
      <4> QED
        BY <4>1
    <3> QED
      BY <3>1, <3>2
  <2>3. I = Nat
    <3>1. I \in SUBSET Nat
      OBVIOUS
    <3> HIDE DEF I
    <3> QED
      BY <2>1, <2>2, <3>1, NumbersFromZero
  <2>4. n \in I
    BY <2>3
  <2> QED
    BY <2>4
<1> QED
  BY <1>1 DEF Max

LEMMA CopyingExists ==
  ASSUME NEW kv, NEW X, NEW pairs \in Seq(X)
  PROVE  \E g : IsCopying(g, kv, pairs)
<1> DEFINE n == Len(pairs)
           D == 1 .. n
           Body(g, s) == IF s = {} THEN kv ELSE CopyOne(g[s \ {Max(s)}], pairs[Max(s)])
           I == {m \in Nat : \E g : \A s \in SUBSET D :
                   (\A x \in s : x <= m) => g[s] = Body(g, s)}
<1>0. n \in Nat /\ D = DOMAIN pairs
  OBVIOUS
<1> HIDE DEF n
<1>1. 0 \in I
  <2> DEFINE g == [s \in SUBSET D |-> kv]
  <2>1. \A s \in SUBSET D : (\A x \in s : x <= 0) => g[s] = Body(g, s)
    <3>1. ASSUME NEW s \in SUBSET D, \A x \in s : x <= 0
          PROVE  s = {}
      BY <1>0, <3>1
    <3> QED
      BY <3>1
  <2> QED
    BY <2>1
<1>2. \A m \in I : m + 1 \in I
  <2> SUFFICES ASSUME NEW m \in I PROVE m + 1 \in I
    OBVIOUS
  <2>1. PICK g : \A s \in SUBSET D : (\A x \in s : x <= m) => g[s] = Body(g, s)
    OBVIOUS
  <2> DEFINE h == [s \in SUBSET D |-> Body(g, s)]
  <2>2. \A s \in SUBSET D : (\A x \in s : x <= m) => h[s] = g[s]
    BY <2>1
  <2>3. ASSUME NEW s \in SUBSET D, \A x \in s : x <= m + 1
        PROVE  h[s] = Body(h, s)
    <3>1. CASE s = {}
      BY <3>1
    <3>2. CASE s # {}
      <4>1. Max(s) \in s /\ \A x \in s : x <= Max(s)
        BY <1>0, <3>2, LastOfNumbers
      <4>2. /\ s \ {Max(s)} \in SUBSET D
            /\ \A x \in s \ {Max(s)} : x <= m
        <5>1. m \in Nat /\ Max(s) \in 1 .. n /\ Max(s) <= m + 1
          BY <2>3, <4>1
        <5>2. ASSUME NEW x \in s \ {Max(s)} PROVE x <= m
          <6>1. x \in 1 .. n /\ x <= Max(s) /\ x # Max(s)
            BY <4>1, <5>2
          <6> QED
            BY <1>0, <5>1, <6>1
        <5> QED
          BY <5>2
      <4>3. h[s \ {Max(s)}] = g[s \ {Max(s)}]
        BY <2>2, <4>2
      <4> HIDE DEF h
      <4>4. h[s] = Body(g, s)
        BY DEF h
      <4> QED
        BY <4>3, <4>4
    <3> QED
      BY <3>1, <3>2
  <2> HIDE DEF h
  <2>4. \E k : \A s \in SUBSET D : (\A x \in s : x <= m + 1) => k[s] = Body(k, s)
    BY <2>3
  <2>5. m + 1 \in Nat
    OBVIOUS
  <2> HIDE DEF Body
  <2> QED
    BY <2>4, <2>5
<1> HIDE DEF I
<1>3. I = Nat
  <2>1. I \in SUBSET Nat
    BY DEF I
  <2> QED
    BY <1>1, <1>2, <2>1, NumbersFromZero
<1>4. n \in I
  BY <1>0, <1>3
<1>5. PICK g : \A s \in SUBSET D : (\A x \in s : x <= n) => g[s] = Body(g, s)
  BY <1>4 DEF I
<1>6. \A s \in SUBSET D : g[s] = Body(g, s)
  <2> SUFFICES ASSUME NEW s \in SUBSET D PROVE g[s] = Body(g, s)
    OBVIOUS
  <2>1. \A x \in s : x <= n
    BY <1>0
  <2> QED
    BY <1>5, <2>1
<1> DEFINE h == [s \in SUBSET D |-> g[s]]
<1>7. \A s \in SUBSET D : h[s] = Body(h, s)
  <2> SUFFICES ASSUME NEW s \in SUBSET D PROVE h[s] = Body(h, s)
    OBVIOUS
  <2>1. s \ {Max(s)} \in SUBSET D
    OBVIOUS
  <2> QED
    BY <1>6, <2>1
<1>8. h = [s \in SUBSET D |-> Body(h, s)]
  <2> HIDE DEF h, Body
  <2>1. h = [s \in SUBSET D |-> h[s]]
    BY DEF h
  <2> QED
    BY <1>7, <2>1
<1>9. IsCopying(h, kv, pairs)
  <2> HIDE DEF h
  <2> QED
    BY <1>0, <1>8 DEF IsCopying
<1> QED
  BY <1>9

LEMMA CopiesOfIs ==
  ASSUME NEW kv, NEW X, NEW pairs \in Seq(X)
  PROVE  \E g : IsCopying(g, kv, pairs) /\ CopiesOf(kv, pairs) = g[DOMAIN pairs]
<1> DEFINE g == CHOOSE c : IsCopying(c, kv, pairs)
<1>1. IsCopying(g, kv, pairs)
  BY CopyingExists
<1>2. CopiesOf(kv, pairs) = g[DOMAIN pairs]
  BY DEF CopiesOf, FoldLeft, MapThenFoldSet, IsCopying, CopyOne
<1> QED
  BY <1>1, <1>2

\* The copies one by one: K[k] is the cache after the first k of them.
InOrder(K, kv, pairs) ==
  /\ K[0] = kv
  /\ \A k \in 1 .. Len(pairs) : K[k] = CopyOne(K[k - 1], pairs[k])

LEMMA CopiesInOrder ==
  ASSUME NEW kv, NEW X, NEW pairs \in Seq(X)
  PROVE  \E K : InOrder(K, kv, pairs) /\ CopiesOf(kv, pairs) = K[Len(pairs)]
<1>1. PICK g : IsCopying(g, kv, pairs) /\ CopiesOf(kv, pairs) = g[DOMAIN pairs]
  BY CopiesOfIs
<1> DEFINE n == Len(pairs)
           K == [k \in 0 .. n |-> g[1 .. k]]
<1>2. n \in Nat /\ DOMAIN pairs = 1 .. n
  OBVIOUS
<1> HIDE DEF n
<1>3. \A s \in SUBSET (1 .. n) :
        g[s] = IF s = {} THEN kv ELSE CopyOne(g[s \ {Max(s)}], pairs[Max(s)])
  BY <1>1, <1>2 DEF IsCopying
<1>4. K[0] = kv
  <2>1. 1 .. 0 = {} /\ 0 \in 0 .. n
    BY <1>2
  <2> QED
    BY <1>3, <2>1
<1>5. ASSUME NEW k \in 1 .. n
      PROVE  K[k] = CopyOne(K[k - 1], pairs[k])
  <2>1. /\ (1 .. k) \in SUBSET (1 .. n) /\ 1 .. k # {}
        /\ k \in 0 .. n /\ k - 1 \in 0 .. n
    BY <1>2, <1>5
  <2>2. Max(1 .. k) = k
    <3>1. Max(1 .. k) \in 1 .. k /\ \A x \in 1 .. k : x <= Max(1 .. k)
      BY <1>2, <2>1, LastOfNumbers
    <3>2. k \in 1 .. k
      BY <1>2, <1>5
    <3> QED
      BY <3>1, <3>2
  <2>3. (1 .. k) \ {k} = 1 .. (k - 1)
    BY <1>2, <1>5
  <2>4. g[1 .. k] = CopyOne(g[1 .. (k - 1)], pairs[k])
    BY <1>3, <2>1, <2>2, <2>3
  <2> QED
    BY <2>1, <2>4
<1>6. K[n] = g[DOMAIN pairs]
  BY <1>2
<1> HIDE DEF K
<1>7. InOrder(K, kv, pairs)
  BY <1>4, <1>5 DEF InOrder, n
<1> QED
  BY <1>1, <1>6, <1>7 DEF n

LEMMA CopiesNone ==
  ASSUME NEW kv
  PROVE  CopiesOf(kv, <<>>) = kv
<1>1. <<>> \in Seq({}) /\ Len(<<>>) = 0
  OBVIOUS
<1>2. PICK K : InOrder(K, kv, <<>>) /\ CopiesOf(kv, <<>>) = K[Len(<<>>)]
  BY <1>1, CopiesInOrder
<1> QED
  BY <1>1, <1>2 DEF InOrder

LEMMA CopiesAppend ==
  ASSUME NEW kv, NEW X, NEW pairs \in Seq(X), NEW p \in X
  PROVE  CopiesOf(kv, Append(pairs, p)) = CopyOne(CopiesOf(kv, pairs), p)
<1> DEFINE n == Len(pairs)
           more == Append(pairs, p)
<1>1. /\ n \in Nat /\ more \in Seq(X) /\ Len(more) = n + 1 /\ more[n + 1] = p
      /\ \A k \in 1 .. n : more[k] = pairs[k]
  OBVIOUS
<1> HIDE DEF n, more
<1>2. PICK K : InOrder(K, kv, pairs) /\ CopiesOf(kv, pairs) = K[Len(pairs)]
  BY CopiesInOrder
<1>3. PICK L : InOrder(L, kv, more) /\ CopiesOf(kv, more) = L[Len(more)]
  BY <1>1, CopiesInOrder
<1> DEFINE I == {m \in Nat : m <= n => K[m] = L[m]}
<1>4. 0 \in I
  BY <1>2, <1>3 DEF InOrder
<1>5. \A m \in I : m + 1 \in I
  <2> SUFFICES ASSUME NEW m \in Nat, m <= n => K[m] = L[m], m + 1 <= n
               PROVE  K[m + 1] = L[m + 1]
    OBVIOUS
  <2>1. m + 1 \in 1 .. n /\ m + 1 \in 1 .. n + 1 /\ ((m + 1) - 1) = m /\ K[m] = L[m]
    BY <1>1
  <2>2. K[m + 1] = CopyOne(K[m], pairs[m + 1])
    BY <1>2, <2>1 DEF InOrder, n
  <2>3. L[m + 1] = CopyOne(L[m], more[m + 1])
    BY <1>1, <1>3, <2>1 DEF InOrder
  <2> QED
    BY <1>1, <2>1, <2>2, <2>3
<1> HIDE DEF I
<1>6. I = Nat
  <2>1. I \in SUBSET Nat
    BY DEF I
  <2> QED
    BY <1>4, <1>5, <2>1, NumbersFromZero
<1>7. K[n] = L[n]
  <2>1. n \in I
    BY <1>1, <1>6
  <2> QED
    BY <1>1, <2>1 DEF I
<1>8. L[n + 1] = CopyOne(L[n], p)
  <2>1. n + 1 \in 1 .. n + 1 /\ ((n + 1) - 1) = n
    BY <1>1
  <2> QED
    BY <1>1, <1>3, <2>1 DEF InOrder
<1> QED
  BY <1>1, <1>2, <1>3, <1>7, <1>8 DEF n, more

LEMMA CopiesType ==
  ASSUME NEW B, NEW C, NEW kv \in [B -> C], NEW pairs \in Seq(B \X B)
  PROVE  CopiesOf(kv, pairs) \in [B -> C]
<1>1. PICK K : InOrder(K, kv, pairs) /\ CopiesOf(kv, pairs) = K[Len(pairs)]
  BY CopiesInOrder
<1> DEFINE n == Len(pairs)
           I == {m \in Nat : m <= n => K[m] \in [B -> C]}
<1>2. n \in Nat
  OBVIOUS
<1>3. 0 \in I
  BY <1>1 DEF InOrder
<1>4. \A m \in I : m + 1 \in I
  <2> SUFFICES ASSUME NEW m \in Nat, m <= n => K[m] \in [B -> C], m + 1 <= n
               PROVE  K[m + 1] \in [B -> C]
    OBVIOUS
  <2> HIDE DEF n
  <2>1. m + 1 \in 1 .. n /\ ((m + 1) - 1) = m /\ K[m] \in [B -> C]
    BY <1>2
  <2>2. K[m + 1] = CopyOne(K[m], pairs[m + 1])
    BY <1>1, <2>1 DEF InOrder, n
  <2>3. pairs[m + 1] \in B \X B
    BY <2>1 DEF n
  <2>4. pairs[m + 1][1] \in B
    BY <2>3
  <2>5. K[m][pairs[m + 1][1]] \in C
    BY <2>1, <2>4
  <2> QED
    BY <2>1, <2>2, <2>5 DEF CopyOne
<1> HIDE DEF I
<1>5. I = Nat
  <2>1. I \in SUBSET Nat
    BY DEF I
  <2> QED
    BY <1>3, <1>4, <2>1, NumbersFromZero
<1>6. n \in I
  BY <1>2, <1>5
<1> QED
  BY <1>1, <1>2, <1>6 DEF I

-----------------------------------------------------------------------------
(* The moves between the two caches.                                       *)

LEMMA TransferType ==
  ASSUME NEW A, NEW B, NEW C, NEW to \in [B -> C], NEW from \in [A -> C],
         NEW pairs \in Seq(A \X B)
  PROVE  Transfer(to, from, pairs) \in [B -> C]
<1> SUFFICES ASSUME NEW b \in B PROVE Transfer(to, from, pairs)[b] \in C
  BY DEF Transfer
<1>1. CASE \E p \in Range(pairs) : p[2] = b
  <2> DEFINE q == CHOOSE p \in Range(pairs) : p[2] = b
  <2>1. q \in Range(pairs)
    BY <1>1
  <2> HIDE DEF q
  <2>2. q \in A \X B
    <3>1. DOMAIN pairs = 1 .. Len(pairs) /\ \A i \in 1 .. Len(pairs) : pairs[i] \in A \X B
      BY LenProperties, ElementOfSeq
    <3> QED
      BY <2>1, <3>1 DEF Range
  <2>3. from[q[1]] \in C
    BY <2>2
  <2> QED
    BY <1>1, <2>3 DEF Transfer, q
<1>2. CASE ~(\E p \in Range(pairs) : p[2] = b)
  BY <1>2 DEF Transfer
<1> QED
  BY <1>1, <1>2

LEMMA TransferNone ==
  ASSUME NEW B, NEW C, NEW to \in [B -> C], NEW from
  PROVE  Transfer(to, from, <<>>) = to
<1>1. Range(<<>>) = {}
  BY DEF Range
<1> QED
  BY <1>1 DEF Transfer

\* Only the sources matter of what is moved.
LEMMA TransferSources ==
  ASSUME NEW to, NEW from, NEW other, NEW pairs,
         \A p \in Range(pairs) : from[p[1]] = other[p[1]]
  PROVE  Transfer(to, from, pairs) = Transfer(to, other, pairs)
<1>1. ASSUME NEW b \in DOMAIN to, \E p \in Range(pairs) : p[2] = b
      PROVE  from[(CHOOSE p \in Range(pairs) : p[2] = b)[1]]
               = other[(CHOOSE p \in Range(pairs) : p[2] = b)[1]]
  <2>1. (CHOOSE p \in Range(pairs) : p[2] = b) \in Range(pairs)
    BY <1>1
  <2> QED
    BY <2>1
<1> QED
  BY <1>1 DEF Transfer

LEMMA RangeAppend ==
  ASSUME NEW S, NEW s \in Seq(S), NEW e \in S
  PROVE  Range(Append(s, e)) = Range(s) \cup {e}
<1> DEFINE n == Len(s)
           r == Append(s, e)
<1>1. n \in Nat /\ DOMAIN s = 1 .. n
  BY LenProperties
<1>2. /\ DOMAIN r = 1 .. n + 1
      /\ \A i \in 1 .. n : r[i] = s[i]
      /\ r[n + 1] = e
  BY AppendProperties, LenProperties
<1> HIDE DEF n, r
<1>3. Range(r) = Range(s) \cup {e}
  BY <1>1, <1>2 DEF Range
<1> QED
  BY <1>3 DEF r

-----------------------------------------------------------------------------
(* Types of the engine.                                                    *)

(***************************************************************************)
(* The model runner is fed tokens that the sequence has.                   *)
(***************************************************************************)
LEMMA QueriesWithin ==
  ASSUME ClientInv, LengthInv, FlightInv, phase = "run", NEW s \in Batch, NEW p \in Queries(s)
  PROVE  s \in Request /\ p \in 1 .. SeqLen(s)
<1>1. /\ TypeOK /\ QueueType /\ TablesFollowStatus
  BY DEF ClientInv, TypeInv
<1>2. Batch \subseteq Request
  <2>1. scheduled_seqs \in Seq(Request)
    BY <1>1 DEF QueueType
  <2> QED
    BY <2>1, ElementOfSeq, LenProperties DEF Batch, Range
<1>3. s \in Request /\ status[s] = "running"
  BY <1>2 DEF FlightInv, InFlight
<1>4. /\ SeqLen(s) \in Nat /\ num_prompt_tokens[s] \in Nat /\ num_cached_tokens[s] \in Nat
      /\ num_computed_tokens[s] \in Nat /\ SeqLen(s) >= 1
  <2>1. token_ids[s] \in Seq(Token) /\ token_ids[s] # <<>>
    BY <1>1, <1>3 DEF TypeOK, TablesFollowStatus
  <2>2. Len(token_ids[s]) \in Nat /\ Len(token_ids[s]) # 0
    BY <2>1, LenProperties, EmptySeq
  <2> QED
    BY <1>1, <1>3, <2>2 DEF TypeOK, QueueType, SeqLen
<1>5. num_prompt_tokens[s] <= SeqLen(s)
  BY <1>3, <1>4 DEF LengthInv, num_completion_tokens
<1>6. num_computed_tokens[s] + RunnerChunk(s) <= num_prompt_tokens[s]
      /\ RunnerChunk(s) \in Int
  <2>1. MaxChunkSize \in Nat \ {0}
    BY SchedulerAssumption
  <2>2. num_computed_tokens[s] + RunnerChunk(s) \in 0 .. num_prompt_tokens[s]
    BY <1>1, <1>3, ChunkWithinPrompt
  <2>3. RunnerChunk(s) \in Int
    BY <1>4, <2>1 DEF RunnerChunk, Least
  <2> QED
    BY <1>4, <2>2, <2>3
<1>7. CASE ~is_prefill
  BY <1>3, <1>4, <1>7 DEF Queries
<1>8. CASE is_prefill /\ EnableChunkedPrefill
  <2>1. p \in num_computed_tokens[s] + 1 .. num_computed_tokens[s] + RunnerChunk(s)
    BY <1>8 DEF Queries, QueryStart, QueryLen, ChunkedBatch
  <2> QED
    BY <1>3, <1>4, <1>5, <1>6, <2>1
<1>9. CASE is_prefill /\ ~EnableChunkedPrefill
  <2>1. p \in num_cached_tokens[s] + 1 .. num_cached_tokens[s] + (SeqLen(s) - num_cached_tokens[s])
    BY <1>9 DEF Queries, QueryStart, QueryLen, ChunkedBatch
  <2> QED
    BY <1>3, <1>4, <2>1
<1> QED
  BY <1>7, <1>8, <1>9

LEMMA PrefixOfTokens ==
  ASSUME TypeOK, NEW s \in Request, NEW p \in 0 .. SeqLen(s)
  PROVE  Prefix(s, p) \in Seq(Token) /\ Len(Prefix(s, p)) = p
<1>1. token_ids[s] \in Seq(Token) /\ SeqLen(s) \in Nat /\ SeqLen(s) = Len(token_ids[s])
  BY LenProperties DEF TypeOK, SeqLen
<1>2. \A i \in 1 .. p : token_ids[s][i] \in Token
  BY <1>1, ElementOfSeq
<1> QED
  BY <1>1, <1>2, SubSeqProperties DEF Prefix

LEMMA StoredType ==
  ASSUME ClientInv, LengthInv, FlightInv, EngineTypeOK, phase = "run"
  PROVE  Stored \in [BlockId -> [Slots -> Seq(Token)]]
<1>1. TypeOK
  BY DEF ClientInv, TypeInv
<1>2. ASSUME NEW w \in Writes
      PROVE  w[2] \in Seq(Token)
  <2>1. PICK s \in Batch : \E p \in Queries(s) :
          w = <<IF is_prefill THEN PrefillSlot(s, p) ELSE DecodeSlot(s), Prefix(s, p)>>
    BY DEF Writes
  <2>2. PICK p \in Queries(s) :
          w = <<IF is_prefill THEN PrefillSlot(s, p) ELSE DecodeSlot(s), Prefix(s, p)>>
    BY <2>1
  <2>3. s \in Request /\ p \in 1 .. SeqLen(s)
    BY QueriesWithin
  <2>4. p \in 0 .. SeqLen(s)
    BY <2>3
  <2> QED
    BY <1>1, <2>2, <2>3, <2>4, PrefixOfTokens
<1>3. ASSUME NEW b \in BlockId, NEW i \in Slots, WritesTo(b, i) # {}
      PROVE  (CHOOSE w \in WritesTo(b, i) : TRUE)[2] \in Seq(Token)
  <2> DEFINE w == CHOOSE v \in WritesTo(b, i) : TRUE
  <2>1. w \in WritesTo(b, i)
    BY <1>3
  <2> HIDE DEF w
  <2>2. w \in Writes
    BY <2>1 DEF WritesTo
  <2> QED
    BY <1>2, <2>2 DEF w
<1>4. kv_cache \in [BlockId -> [Slots -> Seq(Token)]]
  BY DEF EngineTypeOK
<1>5. ASSUME NEW b \in BlockId, NEW i \in Slots
      PROVE  (IF WritesTo(b, i) = {} THEN kv_cache[b][i]
              ELSE (CHOOSE w \in WritesTo(b, i) : TRUE)[2]) \in Seq(Token)
  BY <1>3, <1>4
<1> QED
  BY <1>5 DEF Stored

LEMMA EngineInitType ==
  ASSUME EngineInit
  PROVE  EngineTypeOK
<1>1. <<>> \in Seq(Token) /\ <<>> \in Seq(BlockId \X BlockId)
      /\ <<>> \in Seq(CpuBlockId \X BlockId) /\ <<>> \in Seq(BlockId \X CpuBlockId)
  BY EmptySeq
<1> QED
  BY <1>1 DEF EngineInit, EngineTypeOK

(***************************************************************************)
(* Each pair that schedule adds to a list names blocks of the right sides. *)
(***************************************************************************)
LEMMA EngineTypeStep ==
  ASSUME ClientInv, ClientInv', LengthInv, FlightInv, EngineTypeOK, [EngineNext]_systemVars
  PROVE  EngineTypeOK'
<1>0. /\ TypeOK /\ TablesFollowStatus /\ MethodHasRoom /\ QueueType /\ TypeOK'
  BY DEF ClientInv, TypeInv
<1>1. CASE UNCHANGED engineVars
  BY <1>1 DEF engineVars, kvVars, moveVars, ghostVars, EngineTypeOK
<1>2. CASE EngineSchedule
  <2>1. <<>> \in Seq(BlockId \X BlockId) /\ <<>> \in Seq(CpuBlockId \X BlockId)
        /\ <<>> \in Seq(BlockId \X CpuBlockId)
    BY EmptySeq
  <2> QED
    BY <1>2, <2>1 DEF EngineSchedule, kvVars, ghostVars, EngineTypeOK
<1>3. CASE EngineSwapIn
  <2>1. SwapInStep
    BY <1>3 DEF EngineSwapIn, SwapInIteration
  <2>2. op = "swap_in" /\ cur \in Request
    BY <1>0, <2>1 DEF SwapInStep, TypeOK
  <2> DEFINE i == Len(block_table[cur]) + 1
  <2>3. cpu_block_table[cur][i] \in CpuBlockId
    <3>1. cpu_block_table[cur] \in Seq(CpuBlockId) /\ block_table[cur] \in Seq(BlockId)
      BY <1>0, <2>2 DEF TypeOK
    <3>2. i \in 1 .. Len(cpu_block_table[cur])
      BY <1>0, <2>2, <3>1, LenProperties DEF MethodHasRoom
    <3> QED
      BY <3>1, <3>2, ElementOfSeq
  <2>4. Head(free_block_ids) \in BlockId
    <3>1. free_block_ids \in Seq(BlockId) /\ Len(free_block_ids) \in Nat
          /\ Len(block_table[cur]) \in Nat /\ Len(cpu_block_table[cur]) \in Nat
      BY <1>0, <2>2, LenProperties DEF TypeOK
    <3>2. Len(free_block_ids) > 0
      BY <1>0, <2>2, <3>1 DEF MethodHasRoom
    <3> QED
      BY <3>1, <3>2
  <2> DEFINE pair == <<cpu_block_table[cur][i], Head(free_block_ids)>>
  <2>5. swap_in_map' = Append(swap_in_map, pair) /\ pair \in CpuBlockId \X BlockId
    BY <1>3, <2>3, <2>4 DEF EngineSwapIn
  <2> HIDE DEF pair
  <2>6. swap_in_map' \in Seq(CpuBlockId \X BlockId)
    BY <2>5, AppendProperties DEF EngineTypeOK
  <2>7. unstored' \in BOOLEAN
    BY <1>3 DEF EngineSwapIn, EngineTypeOK
  <2> QED
    BY <1>3, <2>6, <2>7 DEF EngineSwapIn, kvVars, EngineTypeOK
<1>4. CASE EngineSwapOut
  <2>1. SwapOutStep
    BY <1>4 DEF EngineSwapOut, EvictSwapStep
  <2>2. op = "swap_out" /\ cur \in Request
    BY <1>0, <2>1 DEF SwapOutStep, TypeOK
  <2> DEFINE i == Len(cpu_block_table[cur]) + 1
  <2>3. block_table[cur][i] \in BlockId
    <3>1. cpu_block_table[cur] \in Seq(CpuBlockId) /\ block_table[cur] \in Seq(BlockId)
      BY <1>0, <2>2 DEF TypeOK
    <3>2. i \in 1 .. Len(block_table[cur])
      BY <1>0, <2>2, <3>1, LenProperties DEF MethodHasRoom
    <3> QED
      BY <3>1, <3>2, ElementOfSeq
  <2>4. Head(cpu_free_block_ids) \in CpuBlockId
    <3>1. cpu_free_block_ids \in Seq(CpuBlockId) /\ Len(cpu_free_block_ids) \in Nat
          /\ Len(block_table[cur]) \in Nat /\ Len(cpu_block_table[cur]) \in Nat
      BY <1>0, <2>2, LenProperties DEF TypeOK
    <3>2. Len(cpu_free_block_ids) > 0
      BY <1>0, <2>2, <3>1 DEF MethodHasRoom
    <3> QED
      BY <3>1, <3>2
  <2> DEFINE pair == <<block_table[cur][i], Head(cpu_free_block_ids)>>
  <2>5. swap_out_map' = Append(swap_out_map, pair) /\ pair \in BlockId \X CpuBlockId
    BY <1>4, <2>3, <2>4 DEF EngineSwapOut
  <2> HIDE DEF pair
  <2>6. swap_out_map' \in Seq(BlockId \X CpuBlockId)
    BY <2>5, AppendProperties DEF EngineTypeOK
  <2> QED
    BY <1>4, <2>6 DEF EngineSwapOut, kvVars, ghostVars, EngineTypeOK
<1>5. CASE EngineDrop
  <2>1. unstored' \in BOOLEAN
    BY <1>5 DEF EngineDrop, EngineTypeOK
  <2> QED
    BY <1>5, <2>1 DEF EngineDrop, kvVars, moveVars, EngineTypeOK
<1>6. CASE EngineDecode
  <2>1. CASE UNCHANGED cow_pairs
    BY <1>6, <2>1 DEF EngineDecode, kvVars, ghostVars, EngineTypeOK
  <2>2. CASE cow_pairs' = Append(cow_pairs, <<last_block(seq), Last(block_table'[seq])>>)
    <3>1. seq \in Request /\ status[seq] = "running" /\ UNCHANGED status
      BY <1>0, <1>6 DEF EngineDecode, Decode, Deciding, CopyOnWrite, QueueType, seqVars
    <3>2. last_block(seq) \in BlockId
      <4>1. block_table[seq] \in Seq(BlockId) /\ block_table[seq] # <<>>
        BY <1>0, <3>1 DEF TypeOK, TablesFollowStatus
      <4> QED
        BY <4>1, EndsType DEF last_block
    <3>3. Last(block_table'[seq]) \in BlockId
      <4>1. block_table'[seq] \in Seq(BlockId) /\ block_table'[seq] # <<>>
        BY <3>1 DEF ClientInv, TypeInv, TypeOK, TablesFollowStatus
      <4> QED
        BY <4>1, EndsType
    <3> DEFINE pair == <<last_block(seq), Last(block_table'[seq])>>
    <3>4. cow_pairs' = Append(cow_pairs, pair) /\ pair \in BlockId \X BlockId
      BY <2>2, <3>2, <3>3
    <3> HIDE DEF pair
    <3>5. cow_pairs' \in Seq(BlockId \X BlockId)
      BY <3>4, AppendProperties DEF EngineTypeOK
    <3> QED
      BY <1>6, <3>5 DEF EngineDecode, kvVars, ghostVars, EngineTypeOK
  <2> QED
    BY <1>6, <2>1, <2>2 DEF EngineDecode
<1>7. CASE CopyKvBlocks
  <2>1. kv_cache' = CopiesOf(kv_cache, cow_pairs)
    BY <1>7 DEF CopyKvBlocks, CopiesOf
  <2>2. kv_cache' \in [BlockId -> [Slots -> Seq(Token)]]
    BY <2>1, CopiesType DEF EngineTypeOK
  <2>3. stage' = "swap_out" /\ clashed' \in BOOLEAN
    BY <1>7 DEF CopyKvBlocks, EngineTypeOK
  <2> QED
    BY <1>7, <2>2, <2>3 DEF CopyKvBlocks, moveVars, EngineTypeOK
<1>8. CASE SwapBlocksOut
  <2>1. cpu_kv_cache' \in [CpuBlockId -> [Slots -> Seq(Token)]]
    BY <1>8, TransferType DEF SwapBlocksOut, EngineTypeOK
  <2> QED
    BY <1>8, <2>1 DEF SwapBlocksOut, moveVars, ghostVars, EngineTypeOK
<1>9. CASE SwapBlocksIn
  <2>1. kv_cache' \in [BlockId -> [Slots -> Seq(Token)]]
    BY <1>9, TransferType DEF SwapBlocksIn, EngineTypeOK
  <2> QED
    BY <1>9, <2>1 DEF SwapBlocksIn, moveVars, ghostVars, EngineTypeOK
<1>10. CASE RunModel
  <2>1. kv_cache' \in [BlockId -> [Slots -> Seq(Token)]]
    <3>1. Stored \in [BlockId -> [Slots -> Seq(Token)]]
      BY <1>10, StoredType DEF RunModel, Calling
    <3> QED
      BY <1>10, <3>1 DEF RunModel, EngineTypeOK
  <2> QED
    BY <1>10, <2>1 DEF RunModel, moveVars, ghostVars, EngineTypeOK
<1> QED
  BY <1>1, <1>2, <1>3, <1>4, <1>5, <1>6, <1>7, <1>8, <1>9, <1>10
  DEF EngineNext, ClientStep, SchedulerStep, Step, systemVars

(***************************************************************************)
(* Types of the engine (EngineTypeOK): slots hold prefixes of sequences,   *)
(* and copy_kv_blocks and swap_blocks are called with pairs of blocks that *)
(* exist on the sides they copy between.                                   *)
(***************************************************************************)
THEOREM EngineTypeCorrect == EngineSpec => []EngineTypeOK
<1>1. EngineSpec => SchedulerSpec
  BY SchedulerImplemented
<1>2. SchedulerSpec => [](LengthInv /\ SampledInv)
  BY SampledInvariant
<1>3. EngineInit => EngineTypeOK
  BY EngineInitType
<1>4. /\ ClientInv /\ ClientInv' /\ LengthInv /\ PlacedInv /\ EngineTypeOK
      /\ [EngineNext]_systemVars
      => EngineTypeOK'
  BY EngineTypeStep DEF PlacedInv
<1> QED
  BY <1>1, <1>2, <1>3, <1>4, ClientInvariant, PlacedInvariant, PTL DEF EngineSpec

-----------------------------------------------------------------------------
(* Where the KV data of a position lies.                                   *)

\* The page table entry and the slot of a position, both counted from 1.
Entry(p) == 1 + (p - 1) \div BlockSize

Place(p) == 1 + ((p - 1) % BlockSize)

LEMMA PlaceOf ==
  ASSUME NEW p \in Nat \ {0}
  PROVE  /\ Entry(p) \in Nat \ {0} /\ Place(p) \in Slots
         /\ p = (Entry(p) - 1) * BlockSize + Place(p)
         /\ p <= Entry(p) * BlockSize
<1>1. BlockSize \in Nat /\ BlockSize >= 2
  BY BlockManagerAssumption
<1> DEFINE q == (p - 1) \div BlockSize
           r == (p - 1) % BlockSize
<1>2. q \in Nat /\ r \in 0 .. BlockSize - 1 /\ p - 1 = q * BlockSize + r
  BY <1>1
<1> HIDE DEF q, r
<1>3. ((1 + q) - 1) * BlockSize = q * BlockSize /\ (1 + q) * BlockSize = q * BlockSize + BlockSize
  BY <1>1, <1>2
<1>4. q * BlockSize \in Nat
  BY <1>1, <1>2
<1>5. Entry(p) = 1 + q /\ Place(p) = 1 + r
  BY DEF Entry, Place, q, r
<1> QED
  BY <1>1, <1>2, <1>3, <1>4, <1>5 DEF Slots

LEMMA PlaceIs ==
  ASSUME NEW n \in Nat, NEW k \in Slots
  PROVE  Entry(n * BlockSize + k) = n + 1 /\ Place(n * BlockSize + k) = k
<1>1. BlockSize \in Nat /\ BlockSize >= 2
  BY BlockManagerAssumption
<1>2. k - 1 \in 0 .. BlockSize - 1
  BY <1>1 DEF Slots
<1>3. \A r \in 0 .. BlockSize - 1 :
        (n * BlockSize + r) \div BlockSize = n /\ (n * BlockSize + r) % BlockSize = r
  BY <1>1
<1>4. (n * BlockSize + k) - 1 = n * BlockSize + (k - 1) /\ n * BlockSize \in Nat
  <2>1. n * BlockSize \in Nat /\ k \in Nat
    BY <1>1 DEF Slots
  <2> QED
    BY <2>1
<1> DEFINE x == (n * BlockSize + k) - 1
<1>5. x \div BlockSize = n /\ x % BlockSize = k - 1
  BY <1>2, <1>3, <1>4
<1>6. Entry(n * BlockSize + k) = 1 + x \div BlockSize /\ Place(n * BlockSize + k) = 1 + (x % BlockSize)
  BY DEF Entry, Place
<1> HIDE DEF x
<1>7. 1 + (k - 1) = k /\ 1 + n = n + 1
  BY DEF Slots
<1> QED
  BY <1>5, <1>6, <1>7

\* A position within the tokens has an entry in a table that fits them.
LEMMA EntryReached ==
  ASSUME NEW n \in Nat, NEW p \in 1 .. n
  PROVE  Entry(p) \in 1 .. PagesFor(n)
<1>1. /\ Entry(p) \in Nat \ {0} /\ Place(p) \in Slots
      /\ p = (Entry(p) - 1) * BlockSize + Place(p)
  BY PlaceOf
<1>2. PICK i \in Nat : i = Entry(p) - 1
  BY <1>1
<1>3. i * BlockSize < n
  <2>1. i * BlockSize \in Nat
    BY BlockManagerAssumption
  <2> QED
    BY <1>1, <1>2, <2>1 DEF Slots
<1>4. i < PagesFor(n) /\ PagesFor(n) \in Nat
  BY <1>3, PagesReach
<1> QED
  BY <1>1, <1>2, <1>4

(***************************************************************************)
(* The positions that a prefix of whole blocks and a rest make up.         *)
(***************************************************************************)
LEMMA PrefillPlace ==
  ASSUME NEW q \in Nat, q % BlockSize = 0, NEW n \in Nat
  PROVE  /\ Entry(q + 1 + n) = 1 + q \div BlockSize + n \div BlockSize
         /\ Place(q + 1 + n) = 1 + (n % BlockSize)
<1>1. BlockSize \in Nat /\ BlockSize >= 2
  BY BlockManagerAssumption
<1> DEFINE a == q \div BlockSize
           b == n \div BlockSize
           r == n % BlockSize
<1>2. a \in Nat /\ q = a * BlockSize
  BY <1>1
<1>3. b \in Nat /\ r \in 0 .. BlockSize - 1 /\ n = b * BlockSize + r
  BY <1>1
<1> HIDE DEF a, b, r
<1>4. (a + b) * BlockSize = a * BlockSize + b * BlockSize
  BY <1>1, <1>2, <1>3
<1>5. q + 1 + n = (a + b) * BlockSize + (r + 1)
  <2>1. a * BlockSize \in Nat /\ b * BlockSize \in Nat
    BY <1>1, <1>2, <1>3
  <2> QED
    BY <1>2, <1>3, <1>4, <2>1
<1>6. r + 1 \in Slots /\ a + b \in Nat
  BY <1>1, <1>2, <1>3 DEF Slots
<1>7. Entry(q + 1 + n) = (a + b) + 1 /\ Place(q + 1 + n) = r + 1
  BY <1>5, <1>6, PlaceIs
<1> QED
  BY <1>2, <1>3, <1>7 DEF a, b, r

\* The slot where the model runner writes a token is the one that attention
\* looks at for it.
LEMMA SlotOfQuery ==
  ASSUME ClientInv, FitInv, LengthInv, FlightInv, CachedInv, Calling("run"), SlotsMatchQueries,
         NEW s \in Batch, NEW p \in Queries(s)
  PROVE  /\ (IF is_prefill THEN PrefillSlot(s, p) ELSE DecodeSlot(s))
              = <<block_table[s][Entry(p)], Place(p)>>
         /\ Entry(p) \in Held(s)
<1>1. /\ TypeOK /\ QueueType /\ phase = "run" /\ op = "idle"
  BY DEF ClientInv, TypeInv, Calling, Idle
<1>2. s \in Request /\ p \in 1 .. SeqLen(s)
  BY <1>1, QueriesWithin
<1>3. status[s] = "running" /\ placed[s]
  BY <1>1, <1>2 DEF FlightInv, InFlight
<1>4. SeqLen(s) \in Nat /\ num_cached_tokens[s] \in Nat /\ num_computed_tokens[s] \in Nat
  BY <1>1, <1>2, SettledWithinLength DEF TypeOK, QueueType
<1>5. Len(block_table[s]) = PagesFor(SeqLen(s)) /\ block_table[s] \in Seq(BlockId)
  BY <1>1, <1>2, <1>3 DEF FitInv, FitsOnGpu, Slotted, TypeOK
<1>6. Entry(p) \in Held(s)
  <2>1. Entry(p) \in 1 .. Len(block_table[s])
    BY <1>2, <1>4, <1>5, EntryReached
  <2>2. DOMAIN block_table[s] = 1 .. Len(block_table[s])
    BY <1>5, LenProperties
  <2> QED
    BY <1>1, <2>1, <2>2 DEF Held
<1>7. CASE is_prefill
  <2>1. PICK q \in Nat : q = QueryStart(s)
    BY <1>4 DEF QueryStart
  <2>2. q % BlockSize = 0
    BY <1>7, <2>1 DEF SlotsMatchQueries
  <2>3. p > q
    <3>1. p \in q + 1 .. q + QueryLen(s)
      BY <1>7, <2>1 DEF Queries
    <3>2. QueryLen(s) \in Int
      <4>1. MaxChunkSize \in Nat /\ num_prompt_tokens[s] \in Nat
        BY <1>1, <1>2, SchedulerAssumption DEF TypeOK
      <4> QED
        BY <1>4, <1>7, <4>1 DEF QueryLen, RunnerChunk, Least
    <3> QED
      BY <2>1, <3>1, <3>2
  <2>4. PICK n \in Nat : n = p - q - 1
    BY <1>2, <2>1, <2>3
  <2>5. p = q + 1 + n
    BY <1>2, <2>1, <2>4
  <2>6. /\ Entry(p) = 1 + q \div BlockSize + n \div BlockSize
        /\ Place(p) = 1 + (n % BlockSize)
    BY <2>2, <2>5, PrefillPlace
  <2>7. PrefillSlot(s, p) = <<block_table[s][1 + q \div BlockSize + n \div BlockSize],
                              1 + (n % BlockSize)>>
    BY <2>1, <2>4 DEF PrefillSlot
  <2> QED
    BY <1>6, <1>7, <2>6, <2>7
<1>8. CASE ~is_prefill
  <2>1. p = SeqLen(s)
    BY <1>8 DEF Queries
  <2> DEFINE n == num_blocks(s)
             r == (SeqLen(s) + BlockSize - 1) % BlockSize
  <2>2. BlockSize \in Nat /\ BlockSize >= 2
    BY BlockManagerAssumption
  <2>3. n \in Nat /\ r \in 0 .. BlockSize - 1 /\ SeqLen(s) + BlockSize - 1 = n * BlockSize + r
    <3> DEFINE x == SeqLen(s) + BlockSize - 1
    <3>1. x \in Nat
      BY <1>4, <2>2
    <3> HIDE DEF x
    <3>2. /\ x \div BlockSize \in Nat /\ x % BlockSize \in 0 .. BlockSize - 1
          /\ x = (x \div BlockSize) * BlockSize + (x % BlockSize)
      BY <2>2, <3>1
    <3> QED
      BY <3>2 DEF x, num_blocks
  <2>4. n = Len(block_table[s])
    BY <1>5 DEF num_blocks, PagesFor
  <2> HIDE DEF n, r
  <2>5. n # 0
    <3>1. SeqLen(s) + BlockSize - 1 >= BlockSize
      BY <1>2, <1>4, <2>2
    <3>2. 0 * BlockSize = 0
      BY <2>2
    <3> QED
      BY <2>2, <2>3, <3>1, <3>2
  <2>6. n - 1 \in Nat /\ (n - 1) * BlockSize = n * BlockSize - BlockSize
    BY <2>2, <2>3, <2>5
  <2>7. SeqLen(s) = (n - 1) * BlockSize + (r + 1) /\ r + 1 \in Slots
    <3>1. n * BlockSize \in Nat
      BY <2>2, <2>3
    <3> QED
      BY <1>4, <2>2, <2>3, <2>6, <3>1 DEF Slots
  <2>8. Entry(p) = (n - 1) + 1 /\ Place(p) = r + 1
    BY <2>1, <2>6, <2>7, PlaceIs
  <2>9. Last(block_table[s]) = block_table[s][n]
    BY <2>4 DEF Last
  <2>10. last_block_num_tokens(s) = r + 1
    <3>1. (n - 1) * BlockSize \in Nat /\ r \in Nat
      BY <2>2, <2>3, <2>6
    <3>2. last_block_num_tokens(s) = SeqLen(s) - (n - 1) * BlockSize
      BY DEF last_block_num_tokens, n
    <3> QED
      BY <1>4, <2>7, <3>1, <3>2
  <2>11. Entry(p) = n
    BY <2>3, <2>8
  <2> QED
    BY <1>6, <1>8, <2>8, <2>9, <2>10, <2>11 DEF DecodeSlot
<1> QED
  BY <1>7, <1>8

-----------------------------------------------------------------------------
(* Sequences that hold a block agree on what is in it.                     *)

LEMMA PrefixWithin ==
  ASSUME TypeOK, NEW s \in Request, NEW m \in 0 .. SeqLen(s), NEW p \in 0 .. m
  PROVE  Prefix(s, p) = SubSeq(SubSeq(token_ids[s], 1, m), 1, p)
<1> DEFINE t == token_ids[s]
           u == SubSeq(t, 1, m)
<1>1. t \in Seq(Token) /\ SeqLen(s) = Len(t) /\ Len(t) \in Nat
  BY LenProperties DEF TypeOK, SeqLen
<1> HIDE DEF t
<1>2. /\ \A i \in 1 .. m : t[i] \in Token
      /\ \A i \in 1 .. p : t[i] \in Token
  BY <1>1, ElementOfSeq
<1>3. m \in Int /\ p \in Int /\ 1 \in Int
  BY <1>1
<1>4. /\ u \in Seq(Token)
      /\ Len(u) = IF 1 <= m THEN m - 1 + 1 ELSE 0
      /\ \A i \in 1 .. m - 1 + 1 : u[i] = t[1 + i - 1]
  BY <1>2, <1>3, SubSeqProperties
<1> HIDE DEF u
<1>5. \A i \in 1 .. p : u[i] = t[i]
  <2> TAKE i \in 1 .. p
  <2>1. i \in 1 .. m - 1 + 1 /\ 1 + i - 1 = i
    BY <1>1
  <2> QED
    BY <1>4, <2>1
<1>6. /\ SubSeq(t, 1, p) \in Seq(Token)
      /\ Len(SubSeq(t, 1, p)) = IF 1 <= p THEN p - 1 + 1 ELSE 0
      /\ \A i \in 1 .. p - 1 + 1 : SubSeq(t, 1, p)[i] = t[1 + i - 1]
  BY <1>2, <1>3, SubSeqProperties
<1>7. /\ SubSeq(u, 1, p) \in Seq(Token)
      /\ Len(SubSeq(u, 1, p)) = IF 1 <= p THEN p - 1 + 1 ELSE 0
      /\ \A i \in 1 .. p - 1 + 1 : SubSeq(u, 1, p)[i] = u[1 + i - 1]
  <2>1. \A i \in 1 .. p : u[i] \in Token
    BY <1>2, <1>5
  <2> QED
    BY <1>3, <2>1, SubSeqProperties
<1>8. \A i \in 1 .. p : SubSeq(t, 1, p)[i] = SubSeq(u, 1, p)[i]
  <2> TAKE i \in 1 .. p
  <2>1. i \in 1 .. p - 1 + 1 /\ 1 + i - 1 = i
    BY <1>1
  <2> QED
    BY <1>5, <1>6, <1>7, <2>1
<1>9. Len(SubSeq(t, 1, p)) = p /\ Len(SubSeq(u, 1, p)) = p
  BY <1>1, <1>6, <1>7
<1>10. SubSeq(t, 1, p) = SubSeq(u, 1, p)
  BY <1>6, <1>7, <1>8, <1>9, SeqEqual
<1> QED
  BY <1>10 DEF Prefix, t, u

(***************************************************************************)
(* What one holder of a block expects in a slot, every holder does.        *)
(***************************************************************************)
LEMMA HoldersExpectSame ==
  ASSUME ManagerInv, CacheInv, BlocksDeterminePrefix,
         NEW s \in Request, NEW t \in Request, NEW i \in Held(s), NEW j \in Held(t),
         block_table[s][i] = block_table[t][j],
         NEW p \in Nat, p <= i * BlockSize
  PROVE  i = j /\ Prefix(s, p) = Prefix(t, p)
<1>1. TypeOK
  BY DEF ManagerInv, TypeInv
<1>2. SharersAgree
  BY SharersMatch
<1>3. i = j
  BY <1>2 DEF SharersAgree
<1>4. CASE s = t
  BY <1>3, <1>4
<1>5. CASE s # t
  <2>1. /\ i * BlockSize <= Len(token_ids[s]) /\ i * BlockSize <= Len(token_ids[t])
        /\ PrefixHash(s, i) = PrefixHash(t, i)
    BY <1>2, <1>3, <1>5 DEF SharersAgree
  <2>2. PICK m \in Nat : m = i * BlockSize
    BY <1>1, HeldEntry, BlockManagerAssumption
  <2>3. SeqLen(s) \in Nat /\ SeqLen(t) \in Nat
    BY <1>1, SettledWithinLength
  <2>4. m \in 0 .. SeqLen(s) /\ m \in 0 .. SeqLen(t) /\ p \in 0 .. m
    BY <2>1, <2>2, <2>3 DEF SeqLen
  <2>5. SubSeq(token_ids[s], 1, m) = SubSeq(token_ids[t], 1, m)
    BY <2>1, <2>2 DEF PrefixHash
  <2>6. /\ Prefix(s, p) = SubSeq(SubSeq(token_ids[s], 1, m), 1, p)
        /\ Prefix(t, p) = SubSeq(SubSeq(token_ids[t], 1, m), 1, p)
    BY <1>1, <2>4, PrefixWithin
  <2> QED
    BY <1>3, <2>5, <2>6
<1> QED
  BY <1>4, <1>5

(***************************************************************************)
(* Every write of a batch goes to a slot that its sequence holds, and      *)
(* brings what the sequence expects there.                                 *)
(***************************************************************************)
LEMMA WriteIs ==
  ASSUME ClientInv, FitInv, LengthInv, FlightInv, CachedInv, Calling("run"), SlotsMatchQueries,
         NEW w \in Writes
  PROVE  \E s \in Batch : \E p \in Queries(s) :
           /\ s \in Request /\ p \in 1 .. SeqLen(s) /\ Entry(p) \in Held(s)
           /\ w = <<<<block_table[s][Entry(p)], Place(p)>>, Prefix(s, p)>>
<1>1. PICK s \in Batch : \E p \in Queries(s) :
        w = <<IF is_prefill THEN PrefillSlot(s, p) ELSE DecodeSlot(s), Prefix(s, p)>>
  BY DEF Writes
<1>2. PICK p \in Queries(s) :
        w = <<IF is_prefill THEN PrefillSlot(s, p) ELSE DecodeSlot(s), Prefix(s, p)>>
  BY <1>1
<1>3. s \in Request /\ p \in 1 .. SeqLen(s)
  BY QueriesWithin DEF Calling
<1>4. /\ (IF is_prefill THEN PrefillSlot(s, p) ELSE DecodeSlot(s))
           = <<block_table[s][Entry(p)], Place(p)>>
      /\ Entry(p) \in Held(s)
  BY SlotOfQuery
<1> QED
  BY <1>2, <1>3, <1>4

LEMMA WritersMatch ==
  ASSUME ClientInv, ManagerInv, CacheInv, LengthInv, FlightInv, CachedInv
  PROVE  WritersAgree
<1> SUFFICES ASSUME Calling("run"), SlotsMatchQueries, BlocksDeterminePrefix,
                    NEW v \in Writes, NEW w \in Writes, v[1] = w[1]
             PROVE  v[2] = w[2]
  BY DEF WritersAgree
<1>0. FitInv
  BY DEF ManagerInv
<1>1. PICK s \in Batch : \E p \in Queries(s) :
        /\ s \in Request /\ p \in 1 .. SeqLen(s) /\ Entry(p) \in Held(s)
        /\ v = <<<<block_table[s][Entry(p)], Place(p)>>, Prefix(s, p)>>
  BY <1>0, WriteIs
<1>2. PICK p \in Queries(s) :
        /\ s \in Request /\ p \in 1 .. SeqLen(s) /\ Entry(p) \in Held(s)
        /\ v = <<<<block_table[s][Entry(p)], Place(p)>>, Prefix(s, p)>>
  BY <1>1
<1>3. PICK t \in Batch : \E q \in Queries(t) :
        /\ t \in Request /\ q \in 1 .. SeqLen(t) /\ Entry(q) \in Held(t)
        /\ w = <<<<block_table[t][Entry(q)], Place(q)>>, Prefix(t, q)>>
  BY <1>0, WriteIs
<1>4. PICK q \in Queries(t) :
        /\ t \in Request /\ q \in 1 .. SeqLen(t) /\ Entry(q) \in Held(t)
        /\ w = <<<<block_table[t][Entry(q)], Place(q)>>, Prefix(t, q)>>
  BY <1>3
<1>5. block_table[s][Entry(p)] = block_table[t][Entry(q)] /\ Place(p) = Place(q)
  BY <1>2, <1>4
<1>6. p \in Nat \ {0} /\ q \in Nat \ {0}
  BY <1>2, <1>4
<1>7. /\ p <= Entry(p) * BlockSize
      /\ p = (Entry(p) - 1) * BlockSize + Place(p)
      /\ q = (Entry(q) - 1) * BlockSize + Place(q)
  BY <1>6, PlaceOf
<1>8. p \in Nat
  BY <1>6
<1>9. Entry(p) = Entry(q) /\ Prefix(s, p) = Prefix(t, p)
  BY <1>2, <1>4, <1>5, <1>7, <1>8, HoldersExpectSame
<1>10. p = q
  BY <1>5, <1>7, <1>9
<1> QED
  BY <1>2, <1>4, <1>9, <1>10

(***************************************************************************)
(* Two sequences of a batch that write one slot write the same content     *)
(* (WritersAgree): what store_kvcache leaves in a shared block does not    *)
(* depend on the order of the threads that write it.                       *)
(***************************************************************************)
THEOREM WritersAlwaysAgree == EngineSpec => []WritersAgree
<1>1. EngineSpec => SchedulerSpec
  BY SchedulerImplemented
<1>2. /\ SchedulerSpec => [](ManagerInv /\ CacheInv)
      /\ SchedulerSpec => [](LengthInv /\ SampledInv)
      /\ SchedulerSpec => [](CachedInv /\ BudgetInv)
  BY ManagerUnderScheduler, SampledInvariant, BudgetInvariant
<1>3. ClientInv /\ ManagerInv /\ CacheInv /\ LengthInv /\ PlacedInv /\ CachedInv
      => WritersAgree
  BY WritersMatch DEF PlacedInv
<1> QED
  BY <1>1, <1>2, <1>3, ClientInvariant, PlacedInvariant, PTL

-----------------------------------------------------------------------------
(* The positions that the blocks of a page table hold.                     *)

\* Slot j of the i-th block is a position of the i-th block, counted from 1.
LEMMA PosType ==
  ASSUME NEW i \in Nat \ {0}, NEW j \in Slots
  PROVE  /\ Pos(i, j) \in Nat \ {0}
         /\ (i - 1) * BlockSize \in Nat
         /\ (i - 1) * BlockSize < Pos(i, j) /\ Pos(i, j) <= i * BlockSize
         /\ i * BlockSize = (i - 1) * BlockSize + BlockSize
         /\ BlockSize \in Nat
<1>1. BlockSize \in Nat /\ i - 1 \in Nat
  BY BlockManagerAssumption
<1>2. i * BlockSize = (i - 1) * BlockSize + BlockSize
  BY <1>1, SMT
<1>3. (i - 1) * BlockSize \in Nat
  BY <1>1
<1> DEFINE m == (i - 1) * BlockSize
           n == i * BlockSize
<1>4. m \in Nat /\ n = m + BlockSize
  BY <1>2, <1>3
<1>5. j \in Nat /\ 1 <= j /\ j <= BlockSize /\ Pos(i, j) = m + j
  BY <1>1 DEF Slots, Pos
<1> HIDE DEF m, n
<1>6. m + j \in Nat \ {0} /\ m < m + j /\ m + j <= n
  BY <1>1, <1>4, <1>5
<1> QED
  BY <1>1, <1>2, <1>3, <1>5, <1>6 DEF m, n

\* Entry and Place find a position again.
LEMMA PosIs ==
  ASSUME NEW p \in Nat \ {0}
  PROVE  Entry(p) \in Nat \ {0} /\ Place(p) \in Slots /\ Pos(Entry(p), Place(p)) = p
BY PlaceOf DEF Pos

\* And a position names its block and its slot.
LEMMA PosPlace ==
  ASSUME NEW i \in Nat \ {0}, NEW j \in Slots
  PROVE  Entry(Pos(i, j)) = i /\ Place(Pos(i, j)) = j
<1>1. i - 1 \in Nat
  OBVIOUS
<1>2. Entry((i - 1) * BlockSize + j) = (i - 1) + 1 /\ Place((i - 1) * BlockSize + j) = j
  BY <1>1, PlaceIs
<1> QED
  BY <1>2 DEF Pos

\* The positions that the next block of a table of n blocks adds.
LEMMA NextPos ==
  ASSUME NEW n \in Nat, NEW j \in Slots
  PROVE  /\ n * BlockSize < Pos(n + 1, j) /\ Pos(n + 1, j) <= (n + 1) * BlockSize
         /\ Pos(n + 1, j) = n * BlockSize + j /\ n * BlockSize \in Nat
         /\ Pos(n + 1, j) \in Nat \ {0}
         /\ (n + 1) * BlockSize \in Nat /\ (n + 1) * BlockSize = n * BlockSize + BlockSize
<1>1. n + 1 \in Nat \ {0} /\ (n + 1) - 1 = n
  OBVIOUS
<1>2. /\ Pos(n + 1, j) \in Nat \ {0} /\ ((n + 1) - 1) * BlockSize \in Nat
      /\ ((n + 1) - 1) * BlockSize < Pos(n + 1, j) /\ Pos(n + 1, j) <= (n + 1) * BlockSize
      /\ (n + 1) * BlockSize = ((n + 1) - 1) * BlockSize + BlockSize
      /\ BlockSize \in Nat
  BY <1>1, PosType
<1>3. Pos(n + 1, j) = ((n + 1) - 1) * BlockSize + j
  BY DEF Pos
<1> QED
  BY <1>1, <1>2, <1>3

-----------------------------------------------------------------------------
(* What has gone wrong stays wrong.                                        *)

\* What is proved of the scheduler and of the block manager.
BaseInv ==
  /\ ClientInv /\ PlaceInv /\ QueueInv /\ PlacedInv /\ LengthInv /\ CachedInv
  /\ ManagerInv /\ CacheInv /\ CpuInv
  /\ EngineTypeOK

\* All of that holds of the engine, which implements the scheduler.
LEMMA BaseInvariant == EngineSpec => []BaseInv
<1>1. EngineSpec => SchedulerSpec
  BY SchedulerImplemented
<1>2. SchedulerSpec => Spec
  BY BlockManagerImplemented DEF ImplementsBlockManager
<1>3. /\ SchedulerSpec => [](ManagerInv /\ CacheInv)
      /\ SchedulerSpec => [](LengthInv /\ SampledInv)
      /\ SchedulerSpec => [](CachedInv /\ BudgetInv)
  BY ManagerUnderScheduler, SampledInvariant, BudgetInvariant
<1>4. /\ ClientInv /\ PlaceInv /\ QueueInv /\ PlacedInv /\ LengthInv /\ CachedInv
      /\ ManagerInv /\ CacheInv /\ CpuInv /\ EngineTypeOK
      => BaseInv
  BY DEF BaseInv
<1> QED
  BY <1>1, <1>2, <1>3, <1>4, ClientInvariant, PlaceInvariant, QueueInvariant, PlacedInvariant,
     CpuInvariant, EngineTypeCorrect, PTL

(***************************************************************************)
(* The index of the prefix cache only grows, so block contents that occur  *)
(* under one prefix now did so before.                                     *)
(***************************************************************************)
LEMMA ChainsKept ==
  ASSUME TypeInv, [Next]_vars, BlocksDeterminePrefix'
  PROVE  BlocksDeterminePrefix
<1>0. TypeOK
  BY DEF TypeInv
<1>1. ASSUME UNCHANGED hash_to_block_id PROVE BlocksDeterminePrefix
  BY <1>1 DEF BlocksDeterminePrefix
<1>2. ASSUME NEW b, NEW h, NEW tokens, Label(b, h, tokens) PROVE BlocksDeterminePrefix
  <2>1. DOMAIN hash_to_block_id \subseteq DOMAIN hash_to_block_id'
    BY <1>2 DEF Label
  <2> QED
    BY <2>1 DEF BlocksDeterminePrefix
<1>3. CASE UNCHANGED vars \/ Stopped
  BY <1>1, <1>3 DEF vars, cacheVars, Stopped
<1>4. ASSUME NEW s \in Request,
             \/ NewSequence(s)
             \/ \E t \in Token : append_token(s, t)
             \/ \E n \in ChunkEnds : RecordComputed(s, n)
             \/ BeginAllocate(s) \/ BeginFinish(s) \/ Preempt(s) \/ BeginSwapIn(s)
      PROVE  BlocksDeterminePrefix
  BY <1>1, <1>4 DEF NewSequence, append_token, RecordComputed, BeginAllocate, BeginFinish,
                    Preempt, BeginSwapIn, cacheVars
<1>5. ASSUME NEW s \in Request, CopyOnWrite(s) PROVE BlocksDeterminePrefix
  BY <1>1, <1>2, <1>5 DEF CopyOnWrite, cacheVars
<1>6. CASE AllocateStep
  BY <1>2, <1>6 DEF AllocateStep, AllocateMiss, AllocateShared, AllocateRevived, AddToTable
<1>7. CASE DeallocateStep \/ SwapOutStep
  BY <1>1, <1>7 DEF DeallocateStep, SwapOutStep, cacheVars
<1>8. CASE SwapInStep
  BY <1>2, <1>8 DEF SwapInStep
<1>9. CASE AppendStep
  BY <1>1, <1>2, <1>9 DEF AppendStep, AppendNewBlock, AppendFillsBlock, AppendInside,
                          AppendRaises, Raise, cacheVars
<1> QED
  BY <1>3, <1>4, <1>5, <1>6, <1>7, <1>8, <1>9 DEF Next

\* The calls of a step begin with the copies (StageInv).
LEMMA StageStep ==
  ASSUME PlaceInv, StageInv, [EngineNext]_systemVars
  PROVE  StageInv'
<1>1. CASE UNCHANGED systemVars
  BY <1>1 DEF StageInv, systemVars, allVars, schedulerVars, engineVars
<1>2. CASE ClientStep
  BY <1>2 DEF StageInv, ClientStep, Add, AllDone, allVars, schedulerVars, engineVars
<1>3. CASE SchedulerStep
  <2>1. stage' = stage
    BY <1>3 DEF SchedulerStep, engineVars
  <2>2. phase # "run"
    BY <1>3 DEF PlaceInv, CallPlace, SchedulerStep, ResumePrefill, ResumeEnd, Admit, AdmitStep,
         AllocateStep, AllocateMiss, AllocateShared, AllocateRevived,
         AdmitEnd, SwapIn, SwapInEnd, PickDecode, Evict, Deciding, DecodeStep, AppendStep,
         AppendNewBlock, AppendFillsBlock, AppendInside, AppendRaises, Appending, DecodeEnd,
         DecodeLoopDone, NothingScheduled, Record, RecordEnd, PostSkip, PostAppend,
         Postprocessing, PostContinue, PostFinish, PostFinishStep, PostEnd
  <2> QED
    BY <2>1, <2>2 DEF StageInv
<1>4. CASE EngineSchedule \/ EngineSwapIn \/ EngineSwapOut \/ EngineDrop \/ EngineDecode
  <2>1. stage' = stage
    BY <1>4 DEF EngineSchedule, EngineSwapIn, EngineSwapOut, EngineDrop, EngineDecode
  <2>2. phase # "run"
    BY <1>4 DEF PlaceInv, CallPlace, EngineSchedule, EngineSwapIn, EngineSwapOut, EngineDrop,
         EngineDecode, Schedule, BetweenSteps, SwapInIteration, SwapInStep, EvictSwapStep,
         SwapOutStep, EvictDropStep, Decode, Deciding
  <2> QED
    BY <2>1, <2>2 DEF StageInv
<1>5. CASE CopyKvBlocks \/ SwapBlocksOut \/ SwapBlocksIn
  BY <1>5 DEF StageInv, CopyKvBlocks, SwapBlocksOut, SwapBlocksIn, Calling, allVars,
              schedulerVars
<1>6. CASE RunModel
  BY <1>6 DEF StageInv, RunModel
<1> QED
  BY <1>1, <1>2, <1>3, <1>4, <1>5, <1>6 DEF EngineNext, Step

\* schedule fills the lists in the order of its branches (MovesInv).
LEMMA MovesStep ==
  ASSUME PlaceInv, MovesInv, [EngineNext]_systemVars
  PROVE  MovesInv'
<1> USE DEF MovesInv
<1>1. CASE UNCHANGED systemVars
  BY <1>1 DEF systemVars, allVars, schedulerVars, engineVars, moveVars
<1>2. CASE ClientStep
  BY <1>2 DEF ClientStep, Add, AllDone, allVars, schedulerVars, engineVars, moveVars
<1>3. CASE SchedulerStep
  <2>1. UNCHANGED moveVars
    BY <1>3 DEF SchedulerStep, engineVars
  <2>2. CASE ResumePrefill \/ ResumeEnd \/ Admit \/ AdmitEnd \/ SwapIn \/ SwapInEnd \/ PickDecode
    BY <2>1, <2>2 DEF moveVars, ResumePrefill, ResumeEnd, Admit, AdmitEnd, SwapIn, SwapInEnd,
                      PickDecode, Goto, schedulerVars
  <2>3. CASE AdmitStep \/ Evict \/ DecodeStep \/ DecodeEnd \/ NothingScheduled
    BY <2>1, <2>3 DEF moveVars, AdmitStep, Evict, DecodeStep, DecodeEnd, DecodeLoopDone, Goto,
                      NothingScheduled, schedulerVars
  <2>4. CASE \/ Record \/ RecordEnd \/ PostSkip \/ (\E t \in Token : PostAppend(t))
             \/ PostContinue \/ PostFinish \/ PostFinishStep \/ PostEnd
    <3>1. phase \in {"record", "postprocess"}
          /\ phase' \in {"record", "postprocess", "idle"}
      BY <2>4 DEF Record, RecordEnd, PostSkip, PostAppend, Postprocessing, PostContinue,
                  PostFinish, PostFinishStep, PostEnd, Goto, schedulerVars
    <3> QED
      BY <3>1
  <2> QED
    BY <1>3, <2>2, <2>3, <2>4 DEF SchedulerStep
<1>4. CASE EngineSchedule
  BY <1>4 DEF EngineSchedule, Schedule, Goto
<1>5. CASE EngineSwapIn
  <2>1. op = "swap_in" /\ phase' = phase /\ UNCHANGED <<cow_pairs, swap_out_map>>
    BY <1>5 DEF EngineSwapIn, SwapInIteration, SwapInStep
  <2> QED
    BY <2>1 DEF PlaceInv, CallPlace
<1>6. CASE EngineSwapOut \/ EngineDrop \/ EngineDecode
  <2>1. phase = "decode" /\ phase' = phase
    BY <1>6 DEF PlaceInv, CallPlace, EngineSwapOut, EngineDrop, EngineDecode, EvictSwapStep,
         SwapOutStep, EvictDropStep, Decode, Deciding, schedulerVars
  <2> QED
    BY <2>1
<1>7. CASE CopyKvBlocks \/ SwapBlocksOut \/ SwapBlocksIn
  BY <1>7 DEF CopyKvBlocks, SwapBlocksOut, SwapBlocksIn, Calling, allVars, schedulerVars
<1>8. CASE RunModel
  BY <1>8 DEF RunModel, Run, Goto
<1> QED
  BY <1>1, <1>2, <1>3, <1>4, <1>5, <1>6, <1>7, <1>8 DEF EngineNext, Step

\* The lists only grow until the first call.
LEMMA ClashKept ==
  ASSUME Clash, Range(cow_pairs) \subseteq Range(cow_pairs'),
         Range(swap_in_map) \subseteq Range(swap_in_map'),
         Range(swap_out_map) \subseteq Range(swap_out_map')
  PROVE  Clash'
BY DEF Clash

\* Where a step of the scheduler leads.
LEMMA SchedulerStepPlace ==
  ASSUME PlaceInv, SchedulerStep, phase' \notin Failures
  PROVE  /\ Pending => Pending'
         /\ phase \notin Failures
         /\ phase # "run"
<1> USE DEF Pending, Failures, Goto
<1>1. CASE ResumePrefill \/ ResumeEnd \/ Admit \/ AdmitEnd \/ SwapIn \/ SwapInEnd \/ PickDecode
  BY <1>1 DEF ResumePrefill, ResumeEnd, Admit, AdmitEnd, SwapIn, SwapInEnd, PickDecode,
              schedulerVars
<1>2. CASE AdmitStep
  BY <1>2 DEF AdmitStep, PlaceInv, CallPlace, AllocateStep, AllocateMiss, AllocateShared,
              AllocateRevived
<1>3. CASE DecodeStep
  BY <1>3 DEF DecodeStep, PlaceInv, CallPlace, AppendStep, AppendNewBlock, AppendFillsBlock,
              AppendInside, AppendRaises, Appending
<1>4. CASE Evict \/ DecodeEnd \/ NothingScheduled
  BY <1>4 DEF Evict, Deciding, DecodeEnd, DecodeLoopDone, NothingScheduled
<1>5. CASE \/ Record \/ RecordEnd \/ PostSkip \/ (\E t \in Token : PostAppend(t))
           \/ PostContinue \/ PostFinish \/ PostFinishStep \/ PostEnd
  BY <1>5 DEF Record, RecordEnd, PostSkip, PostAppend, Postprocessing, PostContinue,
              PostFinish, PostFinishStep, PostEnd
<1> QED
  BY <1>1, <1>2, <1>3, <1>4, <1>5 DEF SchedulerStep

\* The steps that put a move on a list.
LEMMA MovePlace ==
  ASSUME PlaceInv
  PROVE  /\ EngineSwapIn => op = "swap_in" /\ phase = "swap_in" /\ phase' = phase
         /\ EngineSwapOut => op = "swap_out" /\ phase = "decode" /\ phase' = phase
         /\ EngineDrop => op = "deallocate" /\ phase = "decode" /\ phase' = phase
         /\ EngineDecode => op = "idle" /\ phase = "decode" /\ phase' = phase
         /\ EngineSchedule => op = "idle" /\ phase = "idle" /\ phase' \in {"resume", "admit"}
BY DEF PlaceInv, CallPlace, EngineSchedule, EngineSwapIn, EngineSwapOut, EngineDrop,
       EngineDecode, Schedule, BetweenSteps, SwapInIteration, SwapInStep, EvictSwapStep,
       SwapOutStep, EvictDropStep, DeallocateStep, Decode, Deciding, Goto, Idle, schedulerVars

(***************************************************************************)
(* What has gone wrong stays wrong for the rest of the run.                *)
(***************************************************************************)
LEMMA GoodKept ==
  ASSUME BaseInv, StageInv, [EngineNext]_systemVars, Good'
  PROVE  Good
<1>1. BlocksDeterminePrefix
  <2>1. [Next]_vars
    BY SchedulerSteps, ClientSteps DEF BaseInv
  <2> QED
    BY <2>1, ChainsKept DEF BaseInv, ClientInv, Good
<1> SUFFICES phase \notin Failures /\ NoClash /\ ~unstored
  BY <1>1 DEF Good
<1> USE DEF Good, NoClash
<1>p. PlaceInv
  BY DEF BaseInv
<1>2. CASE UNCHANGED systemVars
  BY <1>2 DEF systemVars, allVars, schedulerVars, engineVars, moveVars, ghostVars,
              Pending, Clash
<1>3. CASE ClientStep
  <2>1. CASE AllDone
    BY <1>3, <2>1 DEF ClientStep, AllDone, allVars, schedulerVars, engineVars, moveVars,
                      ghostVars, Pending, Clash
  <2>2. ASSUME NEW s \in Request, Add(s) PROVE phase \notin Failures /\ NoClash /\ ~unstored
    BY <1>3, <2>2 DEF ClientStep, Add, BetweenSteps, engineVars, ghostVars, Pending, Failures
  <2> QED
    BY <1>3, <2>1, <2>2 DEF ClientStep
<1>4. CASE SchedulerStep
  <2>1. UNCHANGED engineVars
    BY <1>4 DEF SchedulerStep
  <2>2. UNCHANGED <<cow_pairs, swap_in_map, swap_out_map, stage, clashed, unstored>>
    BY <2>1 DEF engineVars, moveVars, ghostVars
  <2>3. Clash => Clash'
    BY <2>2 DEF Clash
  <2> QED
    BY <1>4, <1>p, <2>2, <2>3, SchedulerStepPlace
<1>5. CASE EngineSchedule
  BY <1>5, <1>p, MovePlace DEF EngineSchedule, ghostVars, Pending, Failures
<1>6. CASE EngineSwapIn \/ EngineSwapOut \/ EngineDecode \/ EngineDrop
  <2>1. /\ phase' = phase /\ phase \in {"swap_in", "decode"}
        /\ stage' = stage /\ clashed' = clashed /\ (unstored => unstored')
    <3>0. unstored \in BOOLEAN
      BY DEF BaseInv, EngineTypeOK
    <3> DEFINE Q == stage' = stage /\ clashed' = clashed /\ (unstored => unstored')
    <3>a. ASSUME EngineSwapIn PROVE Q
      BY <3>0, <3>a DEF EngineSwapIn
    <3>b. ASSUME EngineDrop PROVE Q
      BY <3>0, <3>b DEF EngineDrop
    <3>c. ASSUME EngineSwapOut \/ EngineDecode PROVE Q
      BY <3>0, <3>c DEF EngineSwapOut, EngineDecode, ghostVars
    <3>1. Q
      BY <1>6, <3>a, <3>b, <3>c
    <3> QED
      BY <1>6, <1>p, <3>1, MovePlace
  <2>2. /\ cow_pairs \in Seq(BlockId \X BlockId)
        /\ swap_in_map \in Seq(CpuBlockId \X BlockId)
        /\ swap_out_map \in Seq(BlockId \X CpuBlockId)
    BY DEF BaseInv, EngineTypeOK
  <2>3. ASSUME NEW S, NEW s \in Seq(S), NEW e PROVE Range(s) \subseteq Range(Append(s, e))
    <3>1. \A i \in 1 .. Len(s) : i \in 1 .. Len(s) + 1 /\ Append(s, e)[i] = s[i]
      OBVIOUS
    <3>2. Len(Append(s, e)) = Len(s) + 1 /\ DOMAIN Append(s, e) = 1 .. Len(Append(s, e))
      OBVIOUS
    <3> QED
      BY <3>1, <3>2 DEF Range
  <2>4. /\ Range(cow_pairs) \subseteq Range(cow_pairs')
        /\ Range(swap_in_map) \subseteq Range(swap_in_map')
        /\ Range(swap_out_map) \subseteq Range(swap_out_map')
    <3>1. CASE EngineSwapIn
      BY <3>1, <2>2, <2>3 DEF EngineSwapIn
    <3>2. CASE EngineSwapOut
      BY <3>2, <2>2, <2>3 DEF EngineSwapOut
    <3>3. CASE EngineDecode
      BY <3>3, <2>2, <2>3 DEF EngineDecode
    <3>4. CASE EngineDrop
      BY <3>4 DEF EngineDrop, moveVars
    <3> QED
      BY <1>6, <3>1, <3>2, <3>3, <3>4
  <2>5. Clash => Clash'
    BY <2>4, ClashKept
  <2> QED
    BY <2>1, <2>5 DEF Pending, Failures
<1>7. CASE CopyKvBlocks
  BY <1>7 DEF CopyKvBlocks, Calling, Pending, Failures
<1>8. CASE SwapBlocksOut \/ SwapBlocksIn
  <2>1. phase = "run" /\ stage \in {"swap_out", "swap_in"} /\ clashed' = clashed
        /\ unstored' = unstored
    BY <1>8 DEF SwapBlocksOut, SwapBlocksIn, Calling, ghostVars
  <2> QED
    BY <2>1 DEF Failures
<1>9. CASE RunModel
  BY <1>9 DEF RunModel, Calling, ghostVars, Failures
<1> QED
  BY <1>2, <1>3, <1>4, <1>5, <1>6, <1>7, <1>8, <1>9 DEF EngineNext, Step

-----------------------------------------------------------------------------
(* What has been found in the prefix cache, and what is computed.          *)

(***************************************************************************)
(* As long as allocate finds blocks in the prefix cache, each counts for   *)
(* its tokens (CountedInv).                                                *)
(***************************************************************************)
LEMMA CountedStep ==
  ASSUME BaseInv, CountedInv, [EngineNext]_systemVars
  PROVE  CountedInv'
<1>0. /\ TypeOK /\ TablesFollowStatus /\ MethodHasRoom /\ CachedInv /\ ManagerInv /\ CacheInv
  BY DEF BaseInv, ManagerInv, TypeInv
<1>n. [Next]_vars
  BY SchedulerSteps, ClientSteps DEF BaseInv
<1> SUFFICES ASSUME op' = "allocate", ~cache_miss'
             PROVE  num_cached_tokens'[cur'] = Len(block_table'[cur']) * BlockSize
  BY DEF CountedInv
<1>1. CASE UNCHANGED vars \/ Stopped
  <2>1. UNCHANGED <<op, cache_miss, cur, num_cached_tokens, block_table>>
    BY <1>1 DEF vars, callVars, Stopped
  <2> QED
    BY <2>1 DEF CountedInv
<1>2. ASSUME NEW s \in Request, BeginAllocate(s)
      PROVE  num_cached_tokens'[cur'] = Len(block_table'[cur']) * BlockSize
  <2>1. cur = NoRequest /\ s # cur /\ status[s] = "waiting"
    BY <1>0, <1>2, BlockManagerAssumption DEF BeginAllocate, Idle, TypeOK
  <2>2. num_cached_tokens[s] = 0 /\ block_table[s] = <<>>
    BY <1>0, <2>1 DEF CachedInv, TablesFollowStatus
  <2>3. cur' = s /\ UNCHANGED <<num_cached_tokens, block_table>>
    BY <1>2 DEF BeginAllocate, Call
  <2> QED
    BY <2>2, <2>3, BlockManagerAssumption
<1>3. CASE AllocateStep
  <2>1. PICK s \in Request : s = cur
    BY <1>0, <1>3 DEF AllocateStep, AllocateMiss, AllocateShared, AllocateRevived, TypeOK
  <2>2. PICK b : AddToTable(b)
    BY <1>3 DEF AllocateStep, AllocateMiss, AllocateShared, AllocateRevived
  <2>3. /\ op = "allocate" /\ cur' = s /\ cache_miss' = ~CacheHit
        /\ block_table' = [block_table EXCEPT ![s] = Append(@, b)]
    BY <1>3, <2>1, <2>2 DEF AddToTable, Return, Call, AllocateStep, AllocateMiss,
                            AllocateShared, AllocateRevived
  <2>4. CacheHit /\ ~cache_miss
    BY <2>3 DEF CacheHit
  <2>5. num_cached_tokens' = [num_cached_tokens EXCEPT ![s] = @ + BlockSize]
    BY <1>3, <2>1, <2>4 DEF AllocateStep, AllocateMiss, AllocateShared, AllocateRevived,
                            CountCached
  <2>6. num_cached_tokens[s] = Len(block_table[s]) * BlockSize
    BY <2>1, <2>3, <2>4 DEF CountedInv
  <2>7. /\ block_table[s] \in Seq(BlockId) /\ block_table \in [Request -> Seq(BlockId)]
        /\ num_cached_tokens \in [Request -> Nat]
    BY <1>0 DEF TypeOK
  <2>8. Len(block_table'[s]) = Len(block_table[s]) + 1 /\ Len(block_table[s]) \in Nat
    BY <2>3, <2>7, AppendProperties
  <2>9. num_cached_tokens'[s] = Len(block_table[s]) * BlockSize + BlockSize
    BY <2>5, <2>6, <2>7
  <2> DEFINE n == Len(block_table[s])
  <2>10. (n + 1) * BlockSize = n * BlockSize + BlockSize
    <3>1. n \in Nat /\ BlockSize \in Nat
      BY <2>8, BlockManagerAssumption
    <3> HIDE DEF n
    <3> QED
      BY <3>1
  <2> QED
    BY <2>3, <2>8, <2>9, <2>10
<1>4. ASSUME NEW s \in Request,
             \/ NewSequence(s)
             \/ \E t \in Token : append_token(s, t)
             \/ \E n \in ChunkEnds : RecordComputed(s, n)
             \/ BeginFinish(s) \/ Preempt(s) \/ BeginSwapIn(s) \/ CopyOnWrite(s)
      PROVE  FALSE
  BY <1>4 DEF NewSequence, append_token, RecordComputed, BeginFinish, Preempt, BeginSwapIn,
              CopyOnWrite, callVars, Call, Idle
<1>5. CASE DeallocateStep \/ SwapOutStep \/ SwapInStep \/ AppendStep
  BY <1>5 DEF DeallocateStep, SwapOutStep, SwapInStep, AppendStep, AppendNewBlock,
              AppendFillsBlock, AppendInside, AppendRaises, Appending, AppendDone, Raise,
              callVars, Return, Call
<1> QED
  BY <1>n, <1>1, <1>2, <1>3, <1>4, <1>5 DEF Next

\* ComputedInv for one sequence.
ComputedAt(s) ==
  /\ ~EnableChunkedPrefill => num_computed_tokens[s] = 0
  /\ ~unstored /\ status[s] \in {"absent", "waiting"} /\ ~(op = "deallocate" /\ cur = s) =>
       num_computed_tokens[s] = 0
  /\ EnableChunkedPrefill /\ ~is_prefill_finished(s) => num_completion_tokens(s) = 0

(***************************************************************************)
(* No chunk is taken for computed that is not, and a token is sampled only *)
(* after the last chunk, as long as no offered block goes unfilled         *)
(* (ComputedInv).                                                          *)
(***************************************************************************)
LEMMA ComputedStep ==
  ASSUME BaseInv, ComputedInv, [EngineNext]_systemVars
  PROVE  ComputedInv'
<1>0. /\ TypeOK /\ TypeInv /\ ClientInv /\ QueueType /\ PlaceInv /\ PlacedInv /\ unstored \in BOOLEAN
  BY DEF BaseInv, ManagerInv, TypeInv, ClientInv, EngineTypeOK
<1>t. /\ token_ids \in [Request -> Seq(Token)] /\ num_prompt_tokens \in [Request -> Nat]
      /\ num_computed_tokens \in [Request -> Nat]
      /\ status \in [Request -> {"absent", "waiting", "running", "swapped", "finished"}]
  BY <1>0 DEF TypeOK, QueueType
<1>i. \A s \in Request : ComputedAt(s)
  BY DEF ComputedInv, ComputedAt
<1> SUFFICES ASSUME NEW s \in Request PROVE ComputedAt(s)'
  BY DEF ComputedInv, ComputedAt
<1>f. ASSUME num_computed_tokens'[s] = num_computed_tokens[s],
             token_ids'[s] = token_ids[s], num_prompt_tokens'[s] = num_prompt_tokens[s],
             unstored => unstored',
             status'[s] \in {"absent", "waiting"} /\ ~(op' = "deallocate" /\ cur' = s) =>
               status[s] \in {"absent", "waiting"} /\ ~(op = "deallocate" /\ cur = s)
      PROVE  ComputedAt(s)'
  BY <1>f, <1>i DEF ComputedAt, is_prefill_finished, num_completion_tokens, SeqLen
<1>s. ASSUME UNCHANGED <<num_computed_tokens, token_ids, num_prompt_tokens, status, op, cur>>,
             unstored => unstored'
      PROVE  ComputedAt(s)'
  BY <1>s, <1>f
<1>1. CASE UNCHANGED systemVars
  BY <1>1, <1>s DEF systemVars, allVars, vars, seqVars, callVars, schedulerVars, engineVars,
                    ghostVars
<1>2. CASE ClientStep
  <2>1. CASE AllDone
    BY <1>2, <2>1, <1>s DEF ClientStep, AllDone, allVars, vars, seqVars, callVars,
                            schedulerVars, engineVars, ghostVars
  <2>2. ASSUME NEW r \in Request, Add(r) PROVE ComputedAt(s)'
    <3>1. /\ status[r] = "absent" /\ op = "idle" /\ UNCHANGED <<op, cur, unstored>>
          /\ num_computed_tokens' = num_computed_tokens
          /\ status' = [status EXCEPT ![r] = "waiting"]
      BY <1>2, <2>2 DEF ClientStep, Add, NewSequence, Idle, callVars, engineVars, ghostVars
    <3>2. PICK p \in Prompts : /\ token_ids' = [token_ids EXCEPT ![r] = p]
                               /\ num_prompt_tokens' = [num_prompt_tokens EXCEPT ![r] = Len(p)]
      BY <2>2 DEF Add, NewSequence
    <3>3. CASE s # r
      BY <1>t, <3>1, <3>2, <3>3, <1>f
    <3>4. CASE s = r
      <4>1. token_ids'[s] = p /\ num_prompt_tokens'[s] = Len(p) /\ Len(p) \in Nat
        BY <1>t, <3>2, <3>4, BlockManagerAssumption, LenProperties
      <4>2. num_completion_tokens(s)' = 0
        BY <4>1 DEF num_completion_tokens, SeqLen
      <4>3. status'[s] = "waiting" /\ status[s] = "absent"
        BY <3>1, <3>4, <1>t
      <4> QED
        BY <1>i, <3>1, <4>2, <4>3 DEF ComputedAt
    <3> QED
      BY <3>3, <3>4
  <2> QED
    BY <1>2, <2>1, <2>2 DEF ClientStep
<1>3. CASE SchedulerStep
  <2>u. unstored' = unstored
    BY <1>3 DEF SchedulerStep, engineVars, ghostVars
  <2>1. CASE \/ ResumePrefill \/ ResumeEnd \/ AdmitEnd \/ SwapInEnd \/ PickDecode
             \/ DecodeEnd \/ NothingScheduled \/ RecordEnd \/ PostSkip \/ PostContinue \/ PostEnd
    BY <2>1, <2>u, <1>s DEF ResumePrefill, ResumeEnd, AdmitEnd, SwapInEnd, PickDecode,
         DecodeEnd, NothingScheduled, RecordEnd, PostSkip, PostContinue, PostEnd, vars, seqVars,
         callVars
  <2>2. CASE Admit \/ SwapIn
    <3>1. /\ UNCHANGED <<num_computed_tokens, token_ids, num_prompt_tokens, status>>
          /\ op = "idle"
      BY <2>2 DEF Admit, SwapIn, BeginAllocate, BeginSwapIn, Idle, seqVars, schedulerVars
    <3> QED
      BY <3>1, <2>u, <1>f
  <2>3. CASE AdmitStep
    <3>1. PICK b : AddToTable(b)
      BY <2>3 DEF AdmitStep, AllocateStep, AllocateMiss, AllocateShared, AllocateRevived
    <3>2. op = "allocate" /\ cur \in Request
      BY <1>0, <2>3 DEF AdmitStep, AllocateStep, AllocateMiss, AllocateShared, AllocateRevived,
                        TypeOK
    <3>3. /\ UNCHANGED <<num_computed_tokens, token_ids, num_prompt_tokens>>
          /\ status' = status \/ status' = [status EXCEPT ![cur] = "running"]
      BY <2>3, <3>1 DEF AdmitStep, AddToTable
    <3> QED
      BY <3>2, <3>3, <2>u, <1>f, <1>t
  <2>4. CASE Evict
    <3>1. PICK r \in Request : Preempt(r)
      BY <1>0, <2>4, EndsType DEF Evict, QueueType, Deciding
    <3>2. /\ UNCHANGED <<num_computed_tokens, token_ids, num_prompt_tokens>> /\ op = "idle"
          /\ \/ status' = status
             \/ status' = [status EXCEPT ![r] = "waiting"] /\ op' = "deallocate" /\ cur' = r
      BY <2>4, <3>1 DEF Evict, Preempt, Call, Idle
    <3> QED
      BY <3>2, <2>u, <1>f, <1>t
  <2>5. CASE DecodeStep
    <3>1. /\ UNCHANGED <<num_computed_tokens, token_ids, num_prompt_tokens, status>>
          /\ op = "may_append"
      BY <2>5 DEF DecodeStep, AppendStep, AppendNewBlock, AppendFillsBlock, AppendInside,
           AppendRaises, Appending, AppendDone, Raise, seqVars
    <3> QED
      BY <3>1, <2>u, <1>f
  <2>6. CASE Record
    <3>1. /\ phase = "record" /\ todo # <<>> /\ op = "idle"
          /\ RecordComputed(Head(todo), num_computed_tokens[Head(todo)] + RunnerChunk(Head(todo)))
          /\ num_computed_tokens' = [num_computed_tokens EXCEPT ![Head(todo)] =
               num_computed_tokens[Head(todo)] + RunnerChunk(Head(todo))]
      BY <2>6 DEF Record, RecordComputed, Idle
    <3>2. Head(todo) \in Request
      BY <1>0, <3>1, EndsType DEF QueueType
    <3> DEFINE r == Head(todo)
    <3>3. UNCHANGED <<token_ids, num_prompt_tokens, status, op, cur>> /\ status[r] = "running"
      BY <3>1 DEF RecordComputed, seqVars, callVars
    <3>4. EnableChunkedPrefill
      BY <1>0, <3>1 DEF PlaceInv, SeqPlace
    <3>5. num_computed_tokens[r] + RunnerChunk(r) \in 0 .. num_prompt_tokens[r]
      BY <1>0, <3>2, ChunkWithinPrompt
    <3>6. CASE s # r
      BY <3>1, <3>3, <3>6, <2>u, <1>f, <1>t
    <3>7. CASE s = r
      <4>1. ~is_prefill_finished(s)' => ~is_prefill_finished(s)
        <5>1. CASE is_prefill_finished(s)
          <6>1. num_prompt_tokens[s] \in Nat /\ num_computed_tokens[s] \in Nat
                /\ num_computed_tokens[s] >= num_prompt_tokens[s]
            BY <5>1, <1>t DEF is_prefill_finished
          <6>2. RunnerChunk(s) = num_prompt_tokens[s] - num_computed_tokens[s]
            BY <6>1, SchedulerAssumption DEF RunnerChunk, Least
          <6>3. num_computed_tokens'[s] = num_prompt_tokens[s]
            BY <6>1, <6>2, <3>1, <3>2, <3>7, <1>t
          <6> QED
            BY <6>1, <6>3, <3>3 DEF is_prefill_finished
        <5> QED
          BY <5>1
      <4>2. num_completion_tokens(s)' = num_completion_tokens(s)
        BY <3>3 DEF num_completion_tokens, SeqLen
      <4> QED
        BY <4>1, <4>2, <3>3, <3>4, <3>7, <1>i DEF ComputedAt
    <3> QED
      BY <3>6, <3>7
  <2>7. ASSUME NEW t \in Token, PostAppend(t) PROVE ComputedAt(s)'
    <3>1. /\ phase = "postprocess" /\ todo # <<>> /\ op = "idle" /\ ~NoToken(Head(todo))
          /\ append_token(Head(todo), t) /\ num_computed_tokens' = num_computed_tokens
      BY <2>7 DEF PostAppend, Postprocessing, Idle
    <3>2. Head(todo) \in Request /\ Head(todo) \in Range(todo)
      BY <1>0, <3>1, EndsType DEF QueueType, Range
    <3> DEFINE r == Head(todo)
    <3>3. /\ UNCHANGED <<num_prompt_tokens, status, op, cur>> /\ status[r] = "running"
          /\ token_ids' = [token_ids EXCEPT ![r] = Append(@, t)]
      BY <3>1 DEF append_token, callVars
    <3>4. CASE s # r
      BY <3>1, <3>3, <3>4, <2>u, <1>f, <1>t
    <3>5. CASE s = r
      <4>1. EnableChunkedPrefill => is_prefill_finished(r)
        <5>1. CASE is_prefill
          BY <5>1, <3>1 DEF NoToken, ChunkedBatch
        <5>2. CASE ~is_prefill
          BY <5>2, <1>0, <3>1, <3>2 DEF PlacedInv, BatchInv, InFlight
        <5> QED
          BY <5>1, <5>2
      <4>2. is_prefill_finished(s)' = is_prefill_finished(s)
        BY <3>1, <3>3 DEF is_prefill_finished
      <4> QED
        BY <4>1, <4>2, <3>1, <3>3, <3>5, <2>u, <1>i DEF ComputedAt
    <3> QED
      BY <3>4, <3>5
  <2>8. CASE PostFinish
    <3>1. /\ UNCHANGED <<num_computed_tokens, token_ids, num_prompt_tokens>> /\ op = "idle"
          /\ seq \in Request /\ status' = [status EXCEPT ![seq] = "finished"]
      BY <1>0, <2>8 DEF PostFinish, BeginFinish, Idle, schedulerVars, QueueType
    <3> QED
      BY <3>1, <2>u, <1>f, <1>t
  <2>9. CASE PostFinishStep
    <3>1. /\ UNCHANGED <<num_computed_tokens, token_ids, num_prompt_tokens, status>>
          /\ op = "deallocate" /\ phase = "postprocess"
      BY <2>9 DEF PostFinishStep, DeallocateStep, seqVars
    <3>2. status[cur] = "finished"
      BY <1>0, <3>1 DEF PlaceInv, CallPlace
    <3> QED
      BY <3>1, <3>2, <2>u, <1>f
  <2> QED
    BY <1>3, <2>1, <2>2, <2>3, <2>4, <2>5, <2>6, <2>7, <2>8, <2>9 DEF SchedulerStep
<1>4. CASE EngineSchedule
  BY <1>4, <1>s DEF EngineSchedule, Schedule, vars, seqVars, callVars, ghostVars
<1>5. CASE EngineSwapIn
  <2>1. /\ UNCHANGED <<num_computed_tokens, token_ids, num_prompt_tokens>>
        /\ op = "swap_in" /\ cur \in Request
        /\ status' = status \/ status' = [status EXCEPT ![cur] = "running"]
    BY <1>0, <1>5 DEF EngineSwapIn, SwapInIteration, SwapInStep, TypeOK
  <2>2. unstored => unstored'
    BY <1>0, <1>5 DEF EngineSwapIn
  <2> QED
    BY <2>1, <2>2, <1>f, <1>t
<1>6. CASE EngineSwapOut
  <2>1. /\ UNCHANGED <<num_computed_tokens, token_ids, num_prompt_tokens, unstored>>
        /\ op = "swap_out" /\ cur \in Request
        /\ status' = status \/ status' = [status EXCEPT ![cur] = "swapped"]
    BY <1>0, <1>6 DEF EngineSwapOut, EvictSwapStep, SwapOutStep, TypeOK, ghostVars
  <2> QED
    BY <2>1, <1>f, <1>t
<1>7. CASE EngineDrop
  <2>1. /\ UNCHANGED <<num_computed_tokens, token_ids, num_prompt_tokens, status>>
        /\ op = "deallocate"
        /\ unstored' = (unstored \/ num_computed_tokens[cur] > 0)
    BY <1>7 DEF EngineDrop, EvictDropStep, DeallocateStep, seqVars
  <2>2. CASE s # cur
    <3>1. unstored => unstored'
      BY <1>0, <2>1
    <3> QED
      BY <2>1, <2>2, <3>1, <1>f
  <2>3. CASE s = cur
    <3>1. num_computed_tokens[s] \in Nat
      BY <1>t
    <3>2. ~unstored' => num_computed_tokens[s] = 0
      <4>1. num_computed_tokens[s] > 0 => unstored'
        BY <2>1, <2>3, Zenon
      <4> QED
        BY <3>1, <4>1
    <3> QED
      BY <2>1, <3>2, <1>i DEF ComputedAt, is_prefill_finished, num_completion_tokens, SeqLen
  <2> QED
    BY <2>2, <2>3
<1>8. CASE EngineDecode
  <2>1. /\ UNCHANGED <<num_computed_tokens, token_ids, num_prompt_tokens, status, unstored>>
        /\ op = "idle"
    BY <1>8 DEF EngineDecode, Decode, CopyOnWrite, Idle, seqVars, ghostVars, schedulerVars
  <2> QED
    BY <2>1, <1>f
<1>9. CASE CopyKvBlocks \/ SwapBlocksOut \/ SwapBlocksIn
  <2>1. UNCHANGED <<allVars, unstored>>
    BY <1>9 DEF CopyKvBlocks, SwapBlocksOut, SwapBlocksIn, ghostVars
  <2> QED
    BY <2>1, <1>s DEF allVars, vars, seqVars, callVars, schedulerVars
<1>10. CASE RunModel
  BY <1>10, <1>s DEF RunModel, Run, vars, seqVars, callVars, ghostVars
<1> QED
  BY <1>1, <1>2, <1>3, <1>4, <1>5, <1>6, <1>7, <1>8, <1>9, <1>10 DEF EngineNext, Step

-----------------------------------------------------------------------------
(* The iterations that put a move on a list.                               *)

(***************************************************************************)
(* The steps that lead to, or happen in, the branch of schedule that       *)
(* decodes.                                                                *)
(***************************************************************************)
LEMMA BranchEntered ==
  ASSUME PlaceInv, [EngineNext]_systemVars, phase' \in {"swap_in", "decode"}
  PROVE  \/ UNCHANGED systemVars
         \/ /\ UNCHANGED engineVars
            /\ AdmitEnd \/ SwapIn \/ SwapInEnd \/ PickDecode \/ Evict \/ DecodeStep
         \/ EngineSwapIn \/ EngineSwapOut \/ EngineDrop \/ EngineDecode
<1>1. CASE UNCHANGED systemVars
  BY <1>1
<1>2. CASE ClientStep
  <2>1. CASE AllDone
    BY <1>2, <2>1 DEF ClientStep, AllDone, systemVars
  <2>2. ASSUME NEW s \in Request, Add(s) PROVE FALSE
    BY <2>2 DEF Add, BetweenSteps
  <2> QED
    BY <1>2, <2>1, <2>2 DEF ClientStep
<1>3. CASE SchedulerStep
  <2>1. CASE ResumePrefill \/ ResumeEnd \/ Admit \/ NothingScheduled \/ DecodeEnd
    BY <2>1 DEF ResumePrefill, ResumeEnd, Admit, NothingScheduled, DecodeEnd, Goto
  <2>2. CASE AdmitStep
    BY <2>2 DEF AdmitStep, PlaceInv, CallPlace, AllocateStep, AllocateMiss, AllocateShared,
                AllocateRevived
  <2>3. CASE \/ Record \/ RecordEnd \/ PostSkip \/ (\E t \in Token : PostAppend(t))
             \/ PostContinue \/ PostFinish \/ PostFinishStep \/ PostEnd
    BY <2>3 DEF Record, RecordEnd, PostSkip, PostAppend, Postprocessing, PostContinue,
                PostFinish, PostFinishStep, PostEnd, Goto, schedulerVars
  <2> QED
    BY <1>3, <2>1, <2>2, <2>3 DEF SchedulerStep
<1>4. CASE EngineSchedule
  BY <1>4 DEF EngineSchedule, Schedule, Goto
<1>5. CASE EngineSwapIn \/ EngineSwapOut \/ EngineDrop \/ EngineDecode
  BY <1>5
<1>6. CASE CopyKvBlocks \/ SwapBlocksOut \/ SwapBlocksIn
  BY <1>6 DEF CopyKvBlocks, SwapBlocksOut, SwapBlocksIn, Calling, allVars, schedulerVars
<1>7. CASE RunModel
  BY <1>7 DEF RunModel, Run, Goto
<1> QED
  BY <1>1, <1>2, <1>3, <1>4, <1>5, <1>6, <1>7 DEF EngineNext, Step

\* The lists have the types of EngineTypeOK.
LEMMA ListTypes ==
  ASSUME BaseInv
  PROVE  /\ cow_pairs \in Seq(BlockId \X BlockId)
         /\ swap_in_map \in Seq(CpuBlockId \X BlockId)
         /\ swap_out_map \in Seq(BlockId \X CpuBlockId)
         /\ TypeOK /\ TypeInv /\ QueueType /\ PlaceInv /\ QueueInv /\ PoolInv /\ FitInv
         /\ CacheInv /\ CpuInv /\ PlacedInv /\ LengthInv /\ CachedInv /\ ClientInv /\ ManagerInv
         /\ TablesFollowStatus /\ MethodHasRoom /\ PoolPartition /\ CallPlace /\ SeqPlace
BY DEF BaseInv, EngineTypeOK, ManagerInv, ClientInv, TypeInv, PoolInv, PlaceInv

(***************************************************************************)
(* One iteration of swap_in: the head of the free queue is filled from the *)
(* next CPU block, which goes back to its queue.                           *)
(***************************************************************************)
LEMMA SwapInMove ==
  ASSUME BaseInv, EngineSwapIn, NEW s \in Request, s = cur
  PROVE  \E g \in BlockId, c \in CpuBlockId :
           LET n == Len(block_table[s])
           IN /\ n \in Nat /\ n + 1 \in HeldCpu(s) /\ cpu_block_table[s][n + 1] = c
              /\ g = Head(free_block_ids) /\ ref_count[g] = 0
              /\ ref_count' = [ref_count EXCEPT ![g] = 1]
              /\ swap_in_map' = Append(swap_in_map, <<c, g>>)
              /\ Range(swap_in_map') = Range(swap_in_map) \cup {<<c, g>>}
              /\ block_table' = [block_table EXCEPT ![s] = Append(block_table[s], g)]
              /\ block_table[s] \in Seq(BlockId)
              /\ cpu_free_block_ids' = Append(cpu_free_block_ids, c)
              /\ Label(g, NextHash, NextTokens)
              /\ unstored' = (unstored \/ (n + 1) * BlockSize = SeqLen(s))
              /\ op = "swap_in" /\ op' \in {"swap_in", "idle"}
              /\ status[s] = "swapped" /\ Len(cpu_block_table[s]) \in Nat
              /\ UNCHANGED <<cow_pairs, swap_out_map, stage, clashed, kvVars, phase, seq,
                             token_ids, num_prompt_tokens, placed, scheduled_seqs>>
<1>b. /\ TypeOK /\ MethodHasRoom /\ PoolInv /\ swap_in_map \in Seq(CpuBlockId \X BlockId)
  BY ListTypes
<1>1. /\ op = "swap_in" /\ SwapInStep /\ SwapInIteration
  BY DEF EngineSwapIn, SwapInIteration, SwapInStep
<1>2. /\ status[s] = "swapped" /\ Len(block_table[s]) < Len(cpu_block_table[s])
      /\ Len(cpu_block_table[s]) <= Len(block_table[s]) + Len(free_block_ids)
  BY <1>b, <1>1 DEF MethodHasRoom
<1>3. /\ block_table[s] \in Seq(BlockId) /\ cpu_block_table[s] \in Seq(CpuBlockId)
      /\ free_block_ids \in Seq(BlockId)
  BY <1>b DEF TypeOK
<1>4. /\ Len(block_table[s]) \in Nat /\ Len(cpu_block_table[s]) \in Nat
      /\ Len(free_block_ids) \in Nat
      /\ DOMAIN cpu_block_table[s] = 1 .. Len(cpu_block_table[s])
  BY <1>3, LenProperties
<1> DEFINE n == Len(block_table[s])
           g == Head(free_block_ids)
           c == cpu_block_table[s][n + 1]
<1>5. n + 1 \in 1 .. Len(cpu_block_table[s])
  BY <1>2, <1>4
<1>6. c \in CpuBlockId
  BY <1>3, <1>5, ElementOfSeq
<1>7. free_block_ids # <<>>
  BY <1>2, <1>4
<1>8. g \in BlockId /\ ref_count[g] = 0
  BY <1>b, <1>7, HeadUncounted
<1>9. n + 1 \in HeldCpu(s)
  BY <1>4, <1>5 DEF HeldCpu
<1>10. swap_in_map' = Append(swap_in_map, <<c, g>>)
       /\ unstored' = (unstored \/ (n + 1) * BlockSize = SeqLen(s))
       /\ UNCHANGED <<cow_pairs, swap_out_map, stage, clashed, kvVars>>
  BY DEF EngineSwapIn
<1>11. Range(swap_in_map') = Range(swap_in_map) \cup {<<c, g>>}
  <2>1. <<c, g>> \in CpuBlockId \X BlockId
    BY <1>6, <1>8
  <2> HIDE DEF c, g
  <2> QED
    BY <2>1, <1>b, <1>10, RangeAppend
<1>12. /\ ref_count' = [ref_count EXCEPT ![g] = 1]
       /\ block_table' = [block_table EXCEPT ![s] = Append(block_table[s], g)]
       /\ cpu_free_block_ids' = Append(cpu_free_block_ids, c)
       /\ Label(g, NextHash, NextTokens)
       /\ UNCHANGED <<token_ids, num_prompt_tokens, placed>>
       /\ op' \in {"swap_in", "idle"}
  BY <1>1 DEF SwapInStep, Return, Call
<1>13. UNCHANGED <<phase, seq, scheduled_seqs>>
  BY <1>1 DEF SwapInIteration, batchVars
<1> HIDE DEF g, c
<1> QED
  BY <1>1, <1>2, <1>3, <1>4, <1>6, <1>8, <1>9, <1>10, <1>11, <1>12, <1>13 DEF c, g

(***************************************************************************)
(* One iteration of swap_out.                                              *)
(***************************************************************************)
LEMMA SwapOutMove ==
  ASSUME BaseInv, EngineSwapOut, NEW s \in Request, s = cur
  PROVE  \E b \in BlockId, c \in CpuBlockId :
           LET n == Len(cpu_block_table[s])
           IN /\ n \in Nat /\ n + 1 \in Held(s) /\ block_table[s][n + 1] = b
              /\ n + 1 \in DOMAIN block_table[s]
              /\ c = Head(cpu_free_block_ids) /\ cpu_free_block_ids # <<>>
              /\ cpu_free_block_ids' = Tail(cpu_free_block_ids)
              /\ cpu_block_table' =
                   [cpu_block_table EXCEPT ![s] = Append(cpu_block_table[s], c)]
              /\ cpu_block_table[s] \in Seq(CpuBlockId)
              /\ swap_out_map' = Append(swap_out_map, <<b, c>>)
              /\ Range(swap_out_map') = Range(swap_out_map) \cup {<<b, c>>}
              /\ ReleaseBlock(b)
              /\ \/ UNCHANGED <<block_table, status, op, cur>>
                 \/ /\ block_table' = [block_table EXCEPT ![s] = <<>>]
                    /\ status' = [status EXCEPT ![s] = "swapped"]
                    /\ op' = "idle"
              /\ op = "swap_out" /\ phase = "decode" /\ status[s] = "running"
              /\ UNCHANGED <<cow_pairs, swap_in_map, stage, clashed, unstored, kvVars, phase,
                             seq, running, token_ids, num_prompt_tokens, placed,
                             scheduled_seqs, block_hash, is_prefill, num_cached_tokens,
                             num_computed_tokens, todo>>
<1>b. /\ TypeOK /\ MethodHasRoom /\ PoolInv /\ CallPlace
      /\ swap_out_map \in Seq(BlockId \X CpuBlockId)
  BY ListTypes
<1>1. /\ op = "swap_out" /\ SwapOutStep /\ EvictSwapStep /\ phase = "decode"
  BY <1>b DEF EngineSwapOut, EvictSwapStep, SwapOutStep, CallPlace
<1>2. /\ status[s] = "running" /\ Len(cpu_block_table[s]) < Len(block_table[s])
      /\ Len(block_table[s]) <= Len(cpu_block_table[s]) + Len(cpu_free_block_ids)
  BY <1>b, <1>1 DEF MethodHasRoom
<1>3. /\ block_table[s] \in Seq(BlockId) /\ cpu_block_table[s] \in Seq(CpuBlockId)
      /\ cpu_free_block_ids \in Seq(CpuBlockId)
  BY <1>b DEF TypeOK
<1>4. /\ Len(block_table[s]) \in Nat /\ Len(cpu_block_table[s]) \in Nat
      /\ Len(cpu_free_block_ids) \in Nat
      /\ DOMAIN block_table[s] = 1 .. Len(block_table[s])
  BY <1>3, LenProperties
<1> DEFINE n == Len(cpu_block_table[s])
           c == Head(cpu_free_block_ids)
           b == block_table[s][n + 1]
<1>5. n + 1 \in 1 .. Len(block_table[s])
  BY <1>2, <1>4
<1>6. b \in BlockId
  BY <1>3, <1>5, ElementOfSeq
<1>7. cpu_free_block_ids # <<>>
  BY <1>2, <1>4
<1>8. c \in CpuBlockId
  BY <1>3, <1>7, EndsType
<1>9. n + 1 \in Held(s)
  BY <1>4, <1>5 DEF Held
<1>10. swap_out_map' = Append(swap_out_map, <<b, c>>)
       /\ UNCHANGED <<cow_pairs, swap_in_map, stage, clashed, unstored, kvVars>>
  BY DEF EngineSwapOut, ghostVars
<1>11. Range(swap_out_map') = Range(swap_out_map) \cup {<<b, c>>}
  <2>1. <<b, c>> \in BlockId \X CpuBlockId
    BY <1>6, <1>8
  <2> HIDE DEF c, b
  <2> QED
    BY <2>1, <1>b, <1>10, RangeAppend
<1>12. /\ cpu_free_block_ids' = Tail(cpu_free_block_ids)
       /\ cpu_block_table' = [cpu_block_table EXCEPT ![s] = Append(cpu_block_table[s], c)]
       /\ ReleaseBlock(b)
       /\ UNCHANGED <<token_ids, num_prompt_tokens, placed, block_hash, num_cached_tokens>>
       /\ \/ UNCHANGED <<block_table, status, op, cur>>
          \/ /\ block_table' = [block_table EXCEPT ![s] = <<>>]
             /\ status' = [status EXCEPT ![s] = "swapped"]
             /\ op' = "idle"
  BY <1>1 DEF SwapOutStep, Return, Call, TakeCpuBlock, cacheVars, callVars
<1>13. UNCHANGED <<phase, seq, scheduled_seqs, running, is_prefill, num_computed_tokens, todo>>
  BY <1>1 DEF EvictSwapStep, batchVars
<1> HIDE DEF b, c
<1> QED
  BY <1>1, <1>2, <1>3, <1>4, <1>5, <1>6, <1>7, <1>8, <1>9, <1>10, <1>11, <1>12, <1>13 DEF b, c

(***************************************************************************)
(* copy_on_write either leaves the block alone or replaces the last block  *)
(* of the table by a free one, to be filled from it.                       *)
(***************************************************************************)
LEMMA DecodeMove ==
  ASSUME BaseInv, EngineDecode
  PROVE  /\ seq \in Request /\ op = "idle" /\ phase = "decode"
         /\ status[seq] = "running" /\ ~placed[seq] /\ seq \notin Batch
         /\ UNCHANGED <<swap_in_map, swap_out_map, stage, clashed, unstored, kvVars, phase, seq,
                        running, token_ids, num_prompt_tokens, placed, status, scheduled_seqs,
                        is_prefill, num_cached_tokens, num_computed_tokens, todo,
                        cpu_block_table, cpu_free_block_ids>>
         /\ op' \in {"idle", "may_append"}
         /\ \/ /\ UNCHANGED <<block_table, ref_count, block_hash, cow_pairs, hash_to_block_id>>
               /\ op' = "may_append" \/ error' # "none"
            \/ \E old, new \in BlockId :
                 LET n == Len(block_table[seq])
                 IN /\ n \in Nat \ {0} /\ n \in DOMAIN block_table[seq] /\ n \in Held(seq)
                    /\ old = block_table[seq][n] /\ old = Last(block_table[seq])
                    /\ new = Head(free_block_ids)
                    /\ ref_count[new] = 0 /\ ref_count[old] > 1
                    /\ ref_count' = [ref_count EXCEPT ![new] = 1, ![old] = @ - 1]
                    /\ cow_pairs' = Append(cow_pairs, <<old, new>>)
                    /\ Range(cow_pairs') = Range(cow_pairs) \cup {<<old, new>>}
                    /\ block_table' =
                         [block_table EXCEPT ![seq] = [block_table[seq] EXCEPT ![n] = new]]
                    /\ Label(new, block_hash[old], block_token_ids[old])
                    /\ op' = "may_append" /\ cur' = seq
<1>b. /\ TypeOK /\ TablesFollowStatus /\ PoolInv /\ QueueInv /\ QueueType
      /\ cow_pairs \in Seq(BlockId \X BlockId)
  BY ListTypes
<1>1. /\ seq \in Request /\ op = "idle" /\ phase = "decode" /\ CopyOnWrite(seq)
      /\ status[seq] = "running" /\ ~placed[seq] /\ UNCHANGED schedulerVars
  BY <1>b DEF EngineDecode, Decode, Deciding, Idle, CopyOnWrite, QueueType
<1>2. seq \notin Batch
  BY <1>b, <1>1 DEF QueueInv
<1>3. UNCHANGED <<swap_in_map, swap_out_map, stage, clashed, unstored, kvVars>>
  BY DEF EngineDecode, ghostVars
<1>4. UNCHANGED <<phase, seq, running, scheduled_seqs, is_prefill, num_computed_tokens, todo>>
  BY <1>1 DEF schedulerVars, queueVars, batchVars
<1>5. UNCHANGED <<token_ids, num_prompt_tokens, placed, status, num_cached_tokens,
                  cpu_block_table, cpu_free_block_ids>>
  BY <1>1 DEF CopyOnWrite, seqVars
<1>d. \/ block_table' = block_table /\ UNCHANGED cow_pairs
      \/ /\ block_table' # block_table
         /\ cow_pairs' = Append(cow_pairs, <<last_block(seq), Last(block_table'[seq])>>)
  BY DEF EngineDecode
<1>6. CASE /\ UNCHANGED <<block_table, poolVars, cacheVars>>
           /\ op' = "may_append" \/ (op' = op /\ error' # "none")
  <2>1. UNCHANGED cow_pairs
    BY <1>6, <1>d
  <2> QED
    BY <1>1, <1>2, <1>3, <1>4, <1>5, <1>6, <2>1 DEF poolVars, cacheVars
<1>7. CASE /\ ref_count[last_block(seq)] > 1
           /\ free_block_ids # <<>>
           /\ ref_count' = [ref_count EXCEPT ![Head(free_block_ids)] = 1, ![last_block(seq)] = @ - 1]
           /\ Label(Head(free_block_ids), block_hash[last_block(seq)],
                    block_token_ids[last_block(seq)])
           /\ block_table' =
                [block_table EXCEPT ![seq][Len(block_table[seq])] = Head(free_block_ids)]
           /\ op' = "may_append" /\ cur' = seq
  <2> DEFINE n == Len(block_table[seq])
             old == last_block(seq)
             new == Head(free_block_ids)
  <2>1. /\ block_table[seq] \in Seq(BlockId) /\ block_table[seq] # <<>>
        /\ block_table \in [Request -> Seq(BlockId)] /\ ref_count \in [BlockId -> Int]
    BY <1>b, <1>1 DEF TypeOK, TablesFollowStatus
  <2>2. n \in Nat \ {0} /\ old = block_table[seq][n] /\ n \in DOMAIN block_table[seq]
        /\ DOMAIN block_table[seq] = 1 .. n
    BY <2>1, LenProperties DEF last_block, Last
  <2>3. old \in BlockId /\ n \in Held(seq)
    BY <2>2, <1>b, <1>1, LastHeld
  <2>4. new \in BlockId /\ ref_count[new] = 0
    BY <1>b, <1>7, HeadUncounted
  <2>5. new # old
    BY <1>7, <2>4
  <2>6. block_table' = [block_table EXCEPT ![seq] = [block_table[seq] EXCEPT ![n] = new]]
    BY <1>7
  <2>7. block_table'[seq] = [block_table[seq] EXCEPT ![n] = new]
    BY <2>6, <2>1, <1>1
  <2>8. /\ block_table'[seq][n] = new /\ DOMAIN block_table'[seq] = 1 .. n
        /\ block_table'[seq] \in Seq(BlockId) /\ Len(block_table'[seq]) = n
    <3>1. block_table'[seq] \in [1 .. n -> BlockId]
      BY <2>1, <2>2, <2>4, <2>7, ElementOfSeq
    <3>2. block_table'[seq] \in Seq(BlockId)
      BY <3>1, <2>2 DEF Seq
    <3>3. Len(block_table'[seq]) = n
      BY <3>1, <3>2, <2>2, LenProperties
    <3> QED
      BY <3>1, <3>2, <3>3, <2>2, <2>7
  <2>9. Last(block_table'[seq]) = new
    BY <2>8 DEF Last
  <2>10. block_table' # block_table
    BY <2>2, <2>5, <2>8
  <2>11. cow_pairs' = Append(cow_pairs, <<old, new>>)
    BY <1>d, <2>9, <2>10
  <2>12. Range(cow_pairs') = Range(cow_pairs) \cup {<<old, new>>}
    <3>1. <<old, new>> \in BlockId \X BlockId
      BY <2>3, <2>4
    <3> HIDE DEF old, new
    <3> QED
      BY <3>1, <1>b, <2>11, RangeAppend
  <2>13. /\ ref_count' = [ref_count EXCEPT ![new] = 1, ![old] = @ - 1]
         /\ Label(new, block_hash[old], block_token_ids[old])
         /\ op' = "may_append" /\ cur' = seq /\ ref_count[old] > 1 /\ old = Last(block_table[seq])
    BY <1>7 DEF last_block
  <2> HIDE DEF old
  <2>14. \E o, m \in BlockId :
                 LET k == Len(block_table[seq])
                 IN /\ k \in Nat \ {0} /\ k \in DOMAIN block_table[seq] /\ k \in Held(seq)
                    /\ o = block_table[seq][k] /\ o = Last(block_table[seq])
                    /\ m = Head(free_block_ids)
                    /\ ref_count[m] = 0 /\ ref_count[o] > 1
                    /\ ref_count' = [ref_count EXCEPT ![m] = 1, ![o] = @ - 1]
                    /\ cow_pairs' = Append(cow_pairs, <<o, m>>)
                    /\ Range(cow_pairs') = Range(cow_pairs) \cup {<<o, m>>}
                    /\ block_table' =
                         [block_table EXCEPT ![seq] = [block_table[seq] EXCEPT ![k] = m]]
                    /\ Label(m, block_hash[o], block_token_ids[o])
                    /\ op' = "may_append" /\ cur' = seq
    BY <2>2, <2>3, <2>4, <2>6, <2>11, <2>12, <2>13
  <2> QED
    BY <1>1, <1>2, <1>3, <1>4, <1>5, <1>7, <2>14
<1>8. \/ /\ UNCHANGED <<block_table, poolVars, cacheVars>>
         /\ op' = "may_append" \/ (op' = op /\ error' # "none")
      \/ /\ ref_count[last_block(seq)] > 1
         /\ free_block_ids # <<>>
         /\ ref_count' = [ref_count EXCEPT ![Head(free_block_ids)] = 1, ![last_block(seq)] = @ - 1]
         /\ Label(Head(free_block_ids), block_hash[last_block(seq)],
                  block_token_ids[last_block(seq)])
         /\ block_table' =
              [block_table EXCEPT ![seq][Len(block_table[seq])] = Head(free_block_ids)]
         /\ op' = "may_append" /\ cur' = seq
  <2>0. CopyOnWrite(seq)
    BY <1>1
  <2>1. \/ ref_count[last_block(seq)] <= 1 /\ op' = "may_append"
           /\ UNCHANGED <<block_table, poolVars, cacheVars>>
        \/ /\ ref_count[last_block(seq)] > 1
           /\ free_block_ids # <<>>
           /\ ref_count' = [ref_count EXCEPT ![Head(free_block_ids)] = 1, ![last_block(seq)] = @ - 1]
           /\ Label(Head(free_block_ids), block_hash[last_block(seq)],
                    block_token_ids[last_block(seq)])
           /\ block_table' =
                [block_table EXCEPT ![seq][Len(block_table[seq])] = Head(free_block_ids)]
           /\ op' = "may_append" /\ cur' = seq
        \/ op' = op /\ error' = "no free block" /\ UNCHANGED <<block_table, poolVars, cacheVars>>
    BY <2>0 DEF CopyOnWrite, Call, callVars
  <2> QED
    BY <2>1
<1> QED
  BY <1>6, <1>7, <1>8

-----------------------------------------------------------------------------
(* The blocks that are yet to be filled.                                   *)

(***************************************************************************)
(* The blocks that a swap in is going to fill have one reference, the CPU  *)
(* blocks that a swap out is going to fill are taken.                      *)
(***************************************************************************)
LEMMA TargetsStep ==
  ASSUME BaseInv, StageInv, MovesInv, FreshInv, Good, Good', [EngineNext]_systemVars
  PROVE  TargetsInv'
<1>b. /\ TypeOK /\ PoolInv /\ MethodHasRoom /\ CpuInv /\ PlaceInv /\ CallPlace /\ TargetsInv
      /\ RoomInv /\ swap_in_map \in Seq(CpuBlockId \X BlockId)
      /\ swap_out_map \in Seq(BlockId \X CpuBlockId)
  BY ListTypes DEF FreshInv
<1>t. ref_count \in [BlockId -> Int]
  BY <1>b DEF TypeOK
<1>e. \A p \in Range(swap_in_map) : p[2] \in BlockId
  BY <1>b DEF Range
<1>o. ASSUME UNCHANGED <<swap_in_map, swap_out_map, ref_count, cpu_free_block_ids>>,
             phase' = phase
      PROVE  TargetsInv'
  BY <1>o, <1>b DEF TargetsInv
<1> SUFFICES ASSUME phase' \in {"swap_in", "decode"} PROVE TargetsInv'
  BY DEF TargetsInv
<1>1. CASE UNCHANGED systemVars
  BY <1>1, <1>o DEF systemVars, allVars, vars, poolVars, schedulerVars, engineVars, moveVars
<1>2. CASE UNCHANGED engineVars /\ AdmitEnd
  <2>1. /\ UNCHANGED <<swap_in_map, swap_out_map>> /\ phase = "admit"
    BY <1>2 DEF AdmitEnd, engineVars, moveVars
  <2>2. swap_in_map' = <<>> /\ swap_out_map' = <<>>
    BY <2>1 DEF MovesInv
  <2>3. \A p \in Range(swap_in_map') \cup Range(swap_out_map') : FALSE
    BY <2>2 DEF Range
  <2> QED
    BY <2>3 DEF TargetsInv
<1>3. CASE UNCHANGED engineVars /\ (SwapIn \/ PickDecode \/ Evict)
  <2>1. UNCHANGED <<swap_in_map, swap_out_map, ref_count, cpu_free_block_ids, phase>>
    BY <1>3 DEF SwapIn, BeginSwapIn, PickDecode, Evict, Preempt, engineVars, moveVars, poolVars,
                vars, schedulerVars
  <2> QED
    BY <2>1, <1>o
<1>4. CASE UNCHANGED engineVars /\ SwapInEnd
  <2>1. /\ UNCHANGED <<swap_in_map, swap_out_map, ref_count>> /\ phase = "swap_in"
    BY <1>4 DEF SwapInEnd, engineVars, moveVars, vars, poolVars
  <2>2. swap_out_map' = <<>>
    BY <2>1 DEF MovesInv
  <2>3. \A p \in Range(swap_out_map') : FALSE
    BY <2>2 DEF Range
  <2> QED
    BY <1>b, <2>1, <2>3 DEF TargetsInv
<1>5. CASE UNCHANGED engineVars /\ DecodeStep
  <2>1. UNCHANGED <<swap_in_map, swap_out_map, phase>> /\ AppendStep
    BY <1>5 DEF DecodeStep, engineVars, moveVars
  <2>2. cpu_free_block_ids' = cpu_free_block_ids
    BY <2>1 DEF AppendStep, AppendNewBlock, AppendFillsBlock, AppendInside, AppendRaises,
                AppendDone, Raise
  <2>3. CASE ref_count' = ref_count
    BY <2>1, <2>2, <2>3, <1>o
  <2>4. CASE free_block_ids # <<>> /\ ref_count' = [ref_count EXCEPT ![Head(free_block_ids)] = 1]
    <3>1. \A b \in BlockId : ref_count[b] = 1 => ref_count'[b] = 1
      BY <1>t, <2>4
    <3> QED
      BY <1>b, <1>e, <2>1, <2>2, <3>1 DEF TargetsInv
  <2> QED
    BY <2>1, <2>3, <2>4 DEF AppendStep, AppendNewBlock, AppendFillsBlock, AppendInside,
       AppendRaises, allocate_block, Raise, poolVars
<1>6. CASE EngineSwapIn
  <2>1. cur \in Request /\ phase = "swap_in" /\ phase' = phase
    BY <1>6, <1>b, MovePlace DEF TypeOK
  <2> DEFINE s == cur
  <2>2. PICK g \in BlockId, c \in CpuBlockId :
           /\ ref_count[g] = 0 /\ ref_count' = [ref_count EXCEPT ![g] = 1]
           /\ Range(swap_in_map') = Range(swap_in_map) \cup {<<c, g>>}
    BY <1>6, <2>1, SwapInMove
  <2>3. ASSUME NEW p \in Range(swap_in_map') PROVE ref_count'[p[2]] = 1
    <3>1. CASE p \in Range(swap_in_map)
      BY <1>b, <1>t, <1>e, <2>1, <2>2, <3>1 DEF TargetsInv
    <3>2. CASE p = <<c, g>>
      BY <1>t, <2>2, <3>2
    <3> QED
      BY <2>2, <3>1, <3>2
  <2> QED
    BY <2>1, <2>3 DEF TargetsInv
<1>7. CASE EngineSwapOut
  <2>1. cur \in Request
    BY <1>7, <1>b, MovePlace DEF TypeOK
  <2>2. PICK b \in BlockId, c \in CpuBlockId :
              /\ c = Head(cpu_free_block_ids) /\ cpu_free_block_ids # <<>>
              /\ cpu_free_block_ids' = Tail(cpu_free_block_ids)
              /\ Range(swap_out_map') = Range(swap_out_map) \cup {<<b, c>>}
              /\ ReleaseBlock(b) /\ phase = "decode"
              /\ UNCHANGED <<swap_in_map, stage, phase>>
    BY <1>7, <2>1, SwapOutMove
  <2>3. ~Clash'
    BY <2>2 DEF Good, NoClash, Pending, StageInv
  <2>4. \A p \in Range(swap_in_map) : p[2] # b
    <3>1. <<b, c>> \in Range(swap_out_map') /\ swap_in_map' = swap_in_map
      BY <2>2
    <3> QED
      BY <2>3, <3>1 DEF Clash
  <2>5. ref_count' = [ref_count EXCEPT ![b] = @ - 1]
    BY <2>2 DEF ReleaseBlock
  <2>6. \A p \in Range(swap_in_map') : ref_count'[p[2]] = 1
    BY <1>b, <1>t, <1>e, <2>2, <2>4, <2>5 DEF TargetsInv
  <2>7. cpu_free_block_ids \in Seq(CpuBlockId) /\ IsInjective(cpu_free_block_ids)
    BY <1>b DEF TypeOK, CpuInv
  <2>8. Range(cpu_free_block_ids') = Range(cpu_free_block_ids) \ {c}
    BY <2>2, <2>7, TailRange
  <2>9. \A p \in Range(swap_out_map') : p[2] \notin Range(cpu_free_block_ids')
    BY <1>b, <2>2, <2>8 DEF TargetsInv
  <2> QED
    BY <2>6, <2>9 DEF TargetsInv
<1>8. CASE EngineDrop
  <2>1. /\ op = "deallocate" /\ phase = "decode" /\ phase' = phase /\ cur \in Request
        /\ UNCHANGED <<swap_in_map, swap_out_map, cpu_free_block_ids>>
        /\ ReleaseBlock(Last(block_table[cur]))
    BY <1>8, <1>b, MovePlace DEF EngineDrop, EvictDropStep, DeallocateStep, moveVars, TypeOK
  <2>2. cur \notin Fresh
    BY <1>b, <2>1 DEF RoomInv
  <2>3. block_table[cur] \in Seq(BlockId) /\ block_table[cur] # <<>>
    BY <1>b, <2>1 DEF TypeOK, MethodHasRoom
  <2>4. Len(block_table[cur]) \in DOMAIN block_table[cur]
    BY <2>3, LenProperties
  <2>5. ~InTarget(Last(block_table[cur]))
    BY <2>1, <2>2, <2>4 DEF Fresh, Last
  <2>6. ref_count' = [ref_count EXCEPT ![Last(block_table[cur])] = @ - 1]
    BY <2>1 DEF ReleaseBlock
  <2>7. \A p \in Range(swap_in_map') : ref_count'[p[2]] = 1
    BY <1>b, <1>t, <1>e, <2>1, <2>5, <2>6 DEF TargetsInv, InTarget
  <2> QED
    BY <1>b, <2>1, <2>7 DEF TargetsInv
<1>9. CASE EngineDecode
  <2>1. /\ UNCHANGED <<swap_in_map, swap_out_map, cpu_free_block_ids, phase>>
        /\ phase = "decode"
    BY <1>9, DecodeMove
  <2>2. CASE ref_count' = ref_count
    BY <2>1, <2>2, <1>o
  <2>3. CASE \E old, new \in BlockId :
               /\ ref_count[new] = 0 /\ ref_count[old] > 1
               /\ ref_count' = [ref_count EXCEPT ![new] = 1, ![old] = @ - 1]
    <3>1. PICK old, new \in BlockId :
               /\ ref_count[new] = 0 /\ ref_count[old] > 1
               /\ ref_count' = [ref_count EXCEPT ![new] = 1, ![old] = @ - 1]
      BY <2>3
    <3>2. \A b \in BlockId : ref_count[b] = 1 => ref_count'[b] = 1
      BY <1>t, <3>1
    <3> QED
      BY <1>b, <1>e, <2>1, <3>2 DEF TargetsInv
  <2> QED
    <3>1. \/ ref_count' = ref_count
          \/ \E old, new \in BlockId :
               /\ ref_count[new] = 0 /\ ref_count[old] > 1
               /\ ref_count' = [ref_count EXCEPT ![new] = 1, ![old] = @ - 1]
      BY <1>9, DecodeMove
    <3> QED
      BY <3>1, <2>2, <2>3
<1> QED
  BY <1>b, <1>1, <1>2, <1>3, <1>4, <1>5, <1>6, <1>7, <1>8, <1>9, BranchEntered

-----------------------------------------------------------------------------
(* What is swapped in can be swapped out again.                            *)

\* What was swapped in stays what it is when the lists and tables do.
LEMMA SameFresh ==
  ASSUME UNCHANGED <<swap_in_map, cpu_free_block_ids, block_table>>
  PROVE  Fresh' = Fresh /\ AllFresh' = AllFresh
BY DEF Fresh, AllFresh, InTarget

\* Both sets are sets of requests.
LEMMA FreshPart ==
  Fresh \subseteq Request /\ AllFresh \subseteq Request
BY DEF Fresh, AllFresh

(***************************************************************************)
(* A step that leaves the running sequences and their tables alone.        *)
(***************************************************************************)
LEMMA RoomFrame ==
  ASSUME RoomInv, phase \in {"swap_in", "decode"}, running' = running,
         op' \notin {"swap_in", "swap_out", "deallocate"},
         \A k \in DOMAIN running :
           /\ running[k] \in Fresh' <=> running[k] \in Fresh
           /\ running[k] \in AllFresh' <=> running[k] \in AllFresh,
         \/ seq' = NoRequest \/ op' = "may_append"
         \/ seq' = seq /\ op # "may_append" /\ Fresh' = Fresh /\ AllFresh' = AllFresh
  PROVE  RoomInv'
<1>1. CASE seq' = NoRequest \/ op' = "may_append"
  <2>1. NoRequest \notin Fresh'
    BY BlockManagerAssumption DEF Fresh
  <2> QED
    BY <1>1, <2>1 DEF RoomInv
<1>2. CASE seq' = seq /\ op # "may_append" /\ Fresh' = Fresh /\ AllFresh' = AllFresh
  BY <1>2 DEF RoomInv
<1> QED
  BY <1>1, <1>2

\* What would find room is not dropped.
LEMMA RoomKeeps ==
  ASSUME TypeOK, NEW t \in AllFresh
  PROVE  can_swap_out(t)
<1>1. t \in Request
  BY FreshPart
<1>2. Len(block_table[t]) \in Nat /\ Len(cpu_free_block_ids) \in Nat
  BY <1>1, LenProperties DEF TypeOK
<1> QED
  BY <1>2 DEF AllFresh, can_swap_out

\* preempt chooses between swapping and dropping: what is fresh has room.
LEMMA EvictRoom ==
  ASSUME BaseInv, RoomInv, UNCHANGED engineVars, Evict
  PROVE  RoomInv'
<1>b. TypeOK /\ running \in Seq(Request)
  BY ListTypes DEF QueueType
<1>1. /\ phase = "decode" /\ op = "idle" /\ phase' = phase
      /\ UNCHANGED <<swap_in_map, cpu_free_block_ids, block_table>>
      /\ op' \in {"swap_out", "deallocate"}
      /\ op' = "deallocate" => ~can_swap_out(cur')
  BY DEF Evict, Deciding, Idle, Preempt, Call, engineVars, moveVars
<1>2. Fresh' = Fresh /\ AllFresh' = AllFresh
  BY <1>1, SameFresh
<1>3. op' = "deallocate" => cur' \notin AllFresh
  BY <1>1, <1>b, RoomKeeps
<1>4. /\ \A k \in DOMAIN running : running[k] \in Fresh => running[k] \in AllFresh
      /\ \A i, k \in DOMAIN running : i < k /\ running[i] \in Fresh => running[k] \in Fresh
      /\ seq \in Fresh => seq \in AllFresh /\ \A k \in DOMAIN running : running[k] \in Fresh
  BY <1>1 DEF RoomInv
<1>5. CASE running # <<>>
  <2>1. running' = Front(running) /\ seq' = seq /\ cur' = Last(running)
    BY <1>5 DEF Evict, Preempt, Call
  <2>2. Len(running) \in Nat \ {0} /\ DOMAIN running = 1 .. Len(running)
        /\ cur' = running[Len(running)]
    BY <1>b, <1>5, <2>1, LenProperties, EndsType DEF Last
  <2>3. /\ DOMAIN running' = 1 .. Len(running) - 1
        /\ \A k \in 1 .. Len(running) - 1 : running'[k] = running[k]
    BY <1>b, <1>5, <2>1, FrontElements
  <2>4. \A k \in DOMAIN running' : k \in DOMAIN running /\ k < Len(running)
                                   /\ running'[k] = running[k]
    BY <2>2, <2>3
  <2>5. Len(running) \in DOMAIN running
    BY <2>2
  <2>6. /\ \A k \in DOMAIN running' : running'[k] \in Fresh => running'[k] \in AllFresh
        /\ \A i, k \in DOMAIN running' : i < k /\ running'[i] \in Fresh => running'[k] \in Fresh
        /\ seq \in Fresh => seq \in AllFresh /\ \A k \in DOMAIN running' : running'[k] \in Fresh
    BY <1>4, <2>4
  <2>7. /\ cur' \in Fresh => cur' \in AllFresh
        /\ cur' \notin Fresh => seq \notin Fresh /\ \A k \in DOMAIN running' : running'[k] \notin Fresh
    BY <1>4, <2>2, <2>4, <2>5
  <2> QED
    BY <1>1, <1>2, <1>3, <2>1, <2>6, <2>7 DEF RoomInv
<1>6. CASE running = <<>>
  <2>1. running' = <<>> /\ seq' = NoRequest /\ cur' = seq
    BY <1>6 DEF Evict, Preempt, Call
  <2>2. NoRequest \notin Fresh
    BY BlockManagerAssumption DEF Fresh
  <2>3. \A k \in DOMAIN running' : FALSE
    BY <2>1
  <2> QED
    BY <1>1, <1>2, <1>3, <1>4, <2>1, <2>2, <2>3 DEF RoomInv
<1> QED
  BY <1>5, <1>6

\* The decode loop takes the first of running; if that is fresh, all are.
LEMMA PickRoom ==
  ASSUME BaseInv, RoomInv, UNCHANGED engineVars, PickDecode
  PROVE  RoomInv'
<1>b. running \in Seq(Request)
  BY ListTypes DEF QueueType
<1>1. /\ phase = "decode" /\ op = "idle" /\ phase' = phase /\ op' = op /\ running # <<>>
      /\ UNCHANGED <<swap_in_map, cpu_free_block_ids, block_table>>
      /\ seq' = Head(running) /\ running' = Tail(running)
  BY DEF PickDecode, Idle, engineVars, moveVars, vars, callVars
<1>2. Fresh' = Fresh /\ AllFresh' = AllFresh
  BY <1>1, SameFresh
<1>3. Len(running) \in Nat \ {0} /\ DOMAIN running = 1 .. Len(running) /\ Head(running) = running[1]
  BY <1>b, <1>1, LenProperties, EmptySeq
<1>4. /\ DOMAIN running' = 1 .. Len(running) - 1
      /\ \A k \in 1 .. Len(running) - 1 : running'[k] = running[k + 1]
  BY <1>b, <1>1, <1>3, HeadTailProperties
<1>5. /\ \A k \in DOMAIN running' : k + 1 \in DOMAIN running /\ 1 < k + 1
                                    /\ running'[k] = running[k + 1]
      /\ \A i, k \in DOMAIN running' : i < k => i + 1 < k + 1
      /\ 1 \in DOMAIN running
  BY <1>3, <1>4
<1>6. /\ \A k \in DOMAIN running : running[k] \in Fresh => running[k] \in AllFresh
      /\ \A i, k \in DOMAIN running : i < k /\ running[i] \in Fresh => running[k] \in Fresh
  BY <1>1 DEF RoomInv
<1>7. /\ \A k \in DOMAIN running' : running'[k] \in Fresh => running'[k] \in AllFresh
      /\ \A i, k \in DOMAIN running' : i < k /\ running'[i] \in Fresh => running'[k] \in Fresh
  BY <1>5, <1>6
<1>8. seq' \in Fresh => seq' \in AllFresh /\ \A k \in DOMAIN running' : running'[k] \in Fresh
  BY <1>1, <1>3, <1>5, <1>6
<1> QED
  BY <1>1, <1>2, <1>7, <1>8 DEF RoomInv

\* A block more is swapped in, and the CPU block it came from is free.
LEMMA SwapInRoom ==
  ASSUME BaseInv, RoomInv, EngineSwapIn
  PROVE  RoomInv'
<1>b. TypeOK /\ PoolInv /\ QueueInv /\ PlaceInv /\ running \in Seq(Request) /\ SeqPlace
  BY ListTypes DEF QueueType
<1>1. cur \in Request /\ phase = "swap_in" /\ op = "swap_in"
  BY <1>b, MovePlace DEF TypeOK
<1>r. \/ running' = running /\ op' = "swap_in" /\ cur' = cur
      \/ running' = Append(running, cur) /\ op' = "idle"
  <2>1. \/ op' # "idle" /\ UNCHANGED queueVars
        \/ op' = "idle" /\ running' = Append(running, cur)
    BY DEF EngineSwapIn, SwapInIteration
  <2>2. SwapInStep
    BY DEF EngineSwapIn, SwapInIteration
  <2>3. (op' = op /\ cur' = cur) \/ op' = "idle"
    BY <2>2 DEF SwapInStep, Return, Call
  <2> QED
    BY <2>1, <2>3, <1>1 DEF queueVars
<1>s. PICK s \in Request : s = cur
  BY <1>1
<1>2. PICK g \in BlockId, c \in CpuBlockId :
              /\ ref_count[g] = 0
              /\ Range(swap_in_map') = Range(swap_in_map) \cup {<<c, g>>}
              /\ block_table' = [block_table EXCEPT ![s] = Append(block_table[s], g)]
              /\ block_table[s] \in Seq(BlockId)
              /\ cpu_free_block_ids' = Append(cpu_free_block_ids, c)
              /\ status[s] = "swapped" /\ UNCHANGED <<phase, seq>>
  BY <1>s, SwapInMove
<1>3. \A b : InTarget(b)' <=> InTarget(b) \/ b = g
  <2> TAKE b
  <2>1. InTarget(b)' <=> \E p \in Range(swap_in_map) \cup {<<c, g>>} : p[2] = b
    BY <1>2 DEF InTarget
  <2>2. <<c, g>>[2] = g
    OBVIOUS
  <2> QED
    BY <2>1, <2>2 DEF InTarget
<1>4. Len(cpu_free_block_ids) \in Nat /\ Len(cpu_free_block_ids') = Len(cpu_free_block_ids) + 1
  BY <1>b, <1>2, AppendProperties, LenProperties DEF TypeOK
<1>t. /\ block_table \in [Request -> Seq(BlockId)]
  BY <1>b DEF TypeOK
<1>5. ASSUME NEW t \in Request, t # s
      PROVE  (t \in Fresh' <=> t \in Fresh) /\ (t \in AllFresh => t \in AllFresh')
  <2>1. block_table'[t] = block_table[t]
    BY <1>2, <1>5, <1>t
  <2>2. \A i \in DOMAIN block_table[t] : block_table[t][i] # g
    <3>1. Held(t) = DOMAIN block_table[t]
      BY <1>1 DEF Held
    <3> QED
      BY <3>1, <1>b, <1>2, NotHeld
  <2>3. Len(block_table[t]) \in Nat
    BY <1>t, LenProperties
  <2>4. t \in Fresh' <=> t \in Fresh
    BY <1>3, <2>1, <2>2 DEF Fresh
  <2>5. t \in AllFresh => t \in AllFresh'
    BY <1>3, <1>4, <2>1, <2>3 DEF AllFresh
  <2> QED
    BY <2>4, <2>5
<1>6. /\ Len(block_table[s]) \in Nat /\ Len(block_table'[s]) = Len(block_table[s]) + 1
      /\ DOMAIN block_table'[s] = 1 .. Len(block_table[s]) + 1
      /\ DOMAIN block_table[s] = 1 .. Len(block_table[s])
      /\ block_table'[s][Len(block_table[s]) + 1] = g
      /\ \A i \in 1 .. Len(block_table[s]) : block_table'[s][i] = block_table[s][i]
  <2>1. block_table'[s] = Append(block_table[s], g)
    BY <1>2, <1>t
  <2> QED
    BY <1>2, <2>1, AppendProperties, LenProperties
<1>7. s \in AllFresh
  BY <1>1, <1>s DEF RoomInv
<1>8. s \in AllFresh'
  <2>1. \A i \in DOMAIN block_table'[s] :
          i \in DOMAIN block_table[s] \/ i = Len(block_table[s]) + 1
    BY <1>6
  <2>a. /\ \A i \in DOMAIN block_table[s] : InTarget(block_table[s][i])
        /\ Len(block_table[s]) <= Len(cpu_free_block_ids)
    BY <1>7 DEF AllFresh
  <2>2. ASSUME NEW i \in DOMAIN block_table'[s]
        PROVE  block_table'[s][i] = g \/ InTarget(block_table'[s][i])
    <3>1. CASE i \in DOMAIN block_table[s]
      BY <3>1, <2>a, <1>6
    <3> QED
      BY <3>1, <2>1, <1>6
  <2>3. \A i \in DOMAIN block_table'[s] :
          \E p \in Range(swap_in_map') : p[2] = block_table'[s][i]
    <3>1. \A b : InTarget(b) \/ b = g => \E p \in Range(swap_in_map') : p[2] = b
      BY <1>3 DEF InTarget
    <3> QED
      BY <2>2, <3>1
  <2>4. Len(block_table'[s]) <= Len(cpu_free_block_ids')
    BY <1>4, <1>6, <2>a
  <2> QED
    BY <2>3, <2>4 DEF AllFresh, InTarget
<1>9. s \in Fresh'
  <2>1. Len(block_table[s]) + 1 \in DOMAIN block_table'[s]
    BY <1>6
  <2>2. InTarget(g)'
    BY <1>3
  <2> QED
    BY <1>6, <2>1, <2>2 DEF Fresh, InTarget
<1>10. s \notin Range(running)
  BY <1>b, <1>1, <1>2 DEF QueueInv, Owned, Releasing
<1>11. \A k \in DOMAIN running : running[k] \in Request /\ running[k] # s
  BY <1>b, <1>10, ElementOfSeq, LenProperties DEF Range
<1>12. seq' = NoRequest /\ NoRequest \notin Fresh'
  BY <1>b, <1>1, <1>2, BlockManagerAssumption DEF SeqPlace, Fresh
<1>13. (\A k \in DOMAIN running : running[k] \in Fresh => running[k] \in AllFresh)
      /\ (\A i, k \in DOMAIN running : i < k /\ running[i] \in Fresh => running[k] \in Fresh)
  BY <1>1 DEF RoomInv
<1>14. (\A k \in DOMAIN running : running[k] \in Fresh' => running[k] \in AllFresh')
      /\ (\A i, k \in DOMAIN running : i < k /\ running[i] \in Fresh' => running[k] \in Fresh')
  BY <1>5, <1>11, <1>13
<1>16. CASE running' = running /\ op' = "swap_in" /\ cur' = cur
  BY <1>8, <1>12, <1>14, <1>16, <1>s DEF RoomInv
<1>17. CASE running' = Append(running, cur) /\ op' = "idle"
  <2>1. /\ Len(running) \in Nat /\ DOMAIN running = 1 .. Len(running)
        /\ DOMAIN running' = 1 .. Len(running) + 1
        /\ running'[Len(running) + 1] = s
        /\ \A k \in 1 .. Len(running) : running'[k] = running[k]
    BY <1>b, <1>17, <1>s, AppendProperties, LenProperties
  <2>2. \A k \in DOMAIN running' : (k \in DOMAIN running /\ running'[k] = running[k])
                                   \/ (k = Len(running) + 1 /\ running'[k] = s)
    BY <2>1
  <2>3. \A i, k \in DOMAIN running' : i < k /\ k \in DOMAIN running => i \in DOMAIN running
    BY <2>1
  <2>4. \A i \in DOMAIN running' : i = Len(running) + 1 => \A k \in DOMAIN running' : ~(i < k)
    BY <2>1
  <2>5. \A k \in DOMAIN running' : running'[k] \in Fresh' => running'[k] \in AllFresh'
    BY <1>8, <1>14, <2>2
  <2>6. \A i, k \in DOMAIN running' : i < k /\ running'[i] \in Fresh' => running'[k] \in Fresh'
    BY <1>9, <1>14, <2>2, <2>3, <2>4
  <2> QED
    BY <1>12, <1>17, <2>5, <2>6 DEF RoomInv
<1> QED
  BY <1>r, <1>16, <1>17

\* A block of a sequence that is not fresh is swapped out before any fresh one is.
LEMMA SwapOutRoom ==
  ASSUME BaseInv, StageInv, RoomInv, Good', EngineSwapOut
  PROVE  RoomInv'
<1>b. TypeOK /\ CallPlace
  BY ListTypes
<1>1. PICK s \in Request : s = cur
  BY <1>b DEF EngineSwapOut, EvictSwapStep, SwapOutStep, TypeOK
<1>2. PICK b \in BlockId, c \in CpuBlockId :
           LET n == Len(cpu_block_table[s])
           IN /\ n + 1 \in DOMAIN block_table[s] /\ block_table[s][n + 1] = b
              /\ Range(swap_out_map') = Range(swap_out_map) \cup {<<b, c>>}
              /\ \/ UNCHANGED <<block_table, status, op, cur>>
                 \/ /\ block_table' = [block_table EXCEPT ![s] = <<>>]
                    /\ status' = [status EXCEPT ![s] = "swapped"]
                    /\ op' = "idle"
              /\ op = "swap_out" /\ phase = "decode"
              /\ UNCHANGED <<swap_in_map, stage, phase, seq, running>>
  BY <1>1, SwapOutMove
<1>3. ~InTarget(b)
  <2>1. ~Clash'
    BY <1>2 DEF Good, NoClash, Pending, StageInv
  <2>2. <<b, c>> \in Range(swap_out_map') /\ swap_in_map' = swap_in_map
    BY <1>2
  <2> QED
    BY <2>1, <2>2 DEF Clash, InTarget
<1>4. s \notin AllFresh
  BY <1>2, <1>3 DEF AllFresh
<1>5. s \notin Fresh
  BY <1>1, <1>2, <1>4 DEF RoomInv
<1>6. seq \notin Fresh /\ \A k \in DOMAIN running : running[k] \notin Fresh
  BY <1>1, <1>2, <1>5 DEF RoomInv
<1>7. \A t \in Request : t \in Fresh' => t \in Fresh
  <2>t. block_table \in [Request -> Seq(BlockId)]
    BY <1>b DEF TypeOK
  <2>1. \A t \in Request : block_table'[t] = block_table[t] \/ block_table'[t] = <<>>
    BY <1>2, <2>t
  <2>2. DOMAIN <<>> = {}
    OBVIOUS
  <2> QED
    BY <1>2, <2>1, <2>2 DEF Fresh, InTarget
<1>8. /\ \A k \in DOMAIN running' : running'[k] \notin Fresh'
      /\ seq' \notin Fresh' /\ s \notin Fresh'
  BY <1>2, <1>5, <1>6, <1>7 DEF Fresh
<1>9. op' = "idle" \/ (op' = "swap_out" /\ cur' = s)
  BY <1>1, <1>2
<1> QED
  BY <1>8, <1>9 DEF RoomInv

\* Only what finds no room is dropped, so it is not fresh.
LEMMA DropRoom ==
  ASSUME BaseInv, RoomInv, EngineDrop
  PROVE  RoomInv'
<1>b. TypeOK /\ CallPlace /\ MethodHasRoom /\ PlaceInv
  BY ListTypes
<1>1. /\ op = "deallocate" /\ phase = "decode" /\ phase' = phase /\ cur \in Request
      /\ UNCHANGED <<swap_in_map, cpu_free_block_ids, running, seq>>
      /\ block_table' = [block_table EXCEPT ![cur] = Front(@)]
      /\ op' = "idle" \/ UNCHANGED <<op, cur>>
  BY <1>b, MovePlace DEF EngineDrop, EvictDropStep, DeallocateStep, moveVars, TypeOK, Return,
                         Call, callVars
<1>2. cur \notin Fresh
  BY <1>1 DEF RoomInv
<1>3. /\ DOMAIN Front(block_table[cur]) \subseteq DOMAIN block_table[cur]
      /\ \A i \in DOMAIN Front(block_table[cur]) :
           Front(block_table[cur])[i] = block_table[cur][i]
  <2>1. block_table[cur] \in Seq(BlockId) /\ block_table[cur] # <<>>
    BY <1>b, <1>1 DEF TypeOK, MethodHasRoom
  <2>2. DOMAIN block_table[cur] = 1 .. Len(block_table[cur]) /\ Len(block_table[cur]) \in Nat
    BY <2>1, LenProperties
  <2> QED
    BY <2>1, <2>2, FrontElements
<1>t. block_table \in [Request -> Seq(BlockId)]
  BY <1>b DEF TypeOK
<1>4. cur \notin Fresh'
  BY <1>1, <1>2, <1>3, <1>t DEF Fresh, InTarget
<1>5. \A t \in Request : t # cur => (t \in Fresh' <=> t \in Fresh)
                                    /\ (t \in AllFresh' <=> t \in AllFresh)
  BY <1>1, <1>t DEF Fresh, AllFresh, InTarget
<1>6. Fresh' = Fresh /\ \A t \in Fresh : t \in AllFresh' <=> t \in AllFresh
  <2>1. \A t : (t \in Fresh => t \in Request) /\ (t \in Fresh' => t \in Request)
    BY DEF Fresh
  <2>2. \A t : t \in Fresh' <=> t \in Fresh
    BY <1>2, <1>4, <1>5, <2>1
  <2> QED
    BY <1>2, <1>5, <2>1, <2>2
<1>7. /\ \A k \in DOMAIN running : running[k] \in Fresh => running[k] \in AllFresh
      /\ \A i, k \in DOMAIN running : i < k /\ running[i] \in Fresh => running[k] \in Fresh
      /\ seq \in Fresh => seq \in AllFresh /\ \A k \in DOMAIN running : running[k] \in Fresh
  BY <1>1 DEF RoomInv
<1> QED
  BY <1>1, <1>4, <1>6, <1>7 DEF RoomInv

\* What was swapped in during the step is last in running and keeps its room (RoomInv).
LEMMA RoomKept ==
  ASSUME BaseInv, StageInv, MovesInv, RoomInv, Good, Good', [EngineNext]_systemVars
  PROVE  RoomInv'
<1>b. /\ TypeOK /\ TablesFollowStatus /\ PlaceInv /\ CallPlace /\ SeqPlace /\ QueueInv
      /\ running \in Seq(Request)
  BY ListTypes DEF QueueType
<1>t. block_table \in [Request -> Seq(BlockId)]
  BY <1>b DEF TypeOK
<1>d. \A k \in DOMAIN running : running[k] \in Request
  BY <1>b, ElementOfSeq, LenProperties
<1> SUFFICES ASSUME phase' \in {"swap_in", "decode"} PROVE RoomInv'
  BY DEF RoomInv
<1>1. CASE UNCHANGED systemVars
  <2>1. UNCHANGED <<swap_in_map, cpu_free_block_ids, block_table, running, seq, op, cur, phase>>
    BY <1>1 DEF systemVars, allVars, vars, callVars, schedulerVars, queueVars, engineVars,
                moveVars
  <2> QED
    BY <2>1, SameFresh DEF RoomInv
<1>2. CASE UNCHANGED engineVars /\ AdmitEnd
  <2>1. UNCHANGED swap_in_map /\ phase = "admit" /\ op' = "idle"
    BY <1>2 DEF AdmitEnd, engineVars, moveVars, Idle, vars, callVars
  <2>2. swap_in_map' = <<>>
    BY <2>1 DEF MovesInv
  <2>3. Fresh' = {}
    BY <2>2 DEF Fresh, InTarget, Range
  <2> QED
    BY <2>1, <2>3 DEF RoomInv
<1>3. CASE UNCHANGED engineVars /\ SwapIn
  <2>1. /\ UNCHANGED <<swap_in_map, cpu_free_block_ids, block_table, running, seq, phase>>
        /\ phase = "swap_in" /\ op = "idle" /\ op' = "swap_in" /\ cur' \in Request
        /\ status[cur'] = "swapped"
    <3>1. swapped # <<>> /\ BeginSwapIn(Head(swapped)) /\ phase = "swap_in"
          /\ UNCHANGED schedulerVars
      BY <1>3 DEF SwapIn
    <3>2. Head(swapped) \in Request
      BY <3>1, EndsType, ListTypes DEF QueueType
    <3> QED
      BY <1>3, <3>1, <3>2 DEF BeginSwapIn, Call, Idle, engineVars, moveVars, schedulerVars,
                              queueVars
  <2>2. cur = NoRequest
    BY <2>1, <1>b DEF TypeOK
  <2>3. block_table[cur'] = <<>>
    BY <2>1, <2>2, <1>b, BlockManagerAssumption DEF TablesFollowStatus
  <2>4. cur' \in AllFresh
    <3>1. DOMAIN <<>> = {} /\ Len(<<>>) = 0 /\ Len(cpu_free_block_ids) \in Nat
      BY <1>b, LenProperties DEF TypeOK
    <3> QED
      BY <2>1, <2>3, <3>1 DEF AllFresh
  <2>5. Fresh' = Fresh /\ AllFresh' = AllFresh
    BY <2>1, SameFresh
  <2> QED
    BY <2>1, <2>4, <2>5 DEF RoomInv
<1>4. CASE UNCHANGED engineVars /\ SwapInEnd
  <2>1. /\ UNCHANGED <<swap_in_map, cpu_free_block_ids, block_table, running, seq, op>>
        /\ phase = "swap_in" /\ op = "idle"
    BY <1>4 DEF SwapInEnd, Idle, vars, callVars, queueVars, engineVars, moveVars
  <2> QED
    BY <2>1, SameFresh, RoomFrame
<1>5. CASE UNCHANGED engineVars /\ PickDecode
  BY <1>5, PickRoom
<1>6. CASE UNCHANGED engineVars /\ Evict
  BY <1>6, EvictRoom
<1>7. CASE UNCHANGED engineVars /\ DecodeStep
  <2>1. /\ UNCHANGED <<swap_in_map, running, phase>> /\ AppendStep
        /\ op = "may_append" /\ phase = "decode" /\ cur = seq
        /\ (op' = "idle" /\ seq' = NoRequest) \/ (op' # "idle" /\ seq' = seq)
    <3>1. /\ AppendStep /\ UNCHANGED <<swap_in_map, running, phase>>
          /\ (op' = "idle" /\ seq' = NoRequest) \/ (op' # "idle" /\ seq' = seq)
      BY <1>7 DEF DecodeStep, engineVars, moveVars, queueVars
    <3>2. op = "may_append"
      BY <3>1 DEF AppendStep, AppendNewBlock, AppendFillsBlock, AppendInside, AppendRaises,
                  Appending
    <3> QED
      BY <3>1, <3>2, <1>b DEF CallPlace
  <2>2. /\ cpu_free_block_ids' = cpu_free_block_ids
        /\ \A t \in Request : t # cur => block_table'[t] = block_table[t]
        /\ op' = "idle" \/ op' = op
    BY <2>1, <1>t DEF AppendStep, AppendNewBlock, AppendFillsBlock, AppendInside,
       AppendRaises, AppendDone, Return, Call, Raise, callVars
  <2>3. cur \notin Range(running)
    BY <2>1, <1>b DEF QueueInv, Taken, TypeOK
  <2>4. \A k \in DOMAIN running : running[k] # cur
    BY <2>3 DEF Range
  <2>5. \A k \in DOMAIN running : /\ running[k] \in Fresh' <=> running[k] \in Fresh
                                  /\ running[k] \in AllFresh' <=> running[k] \in AllFresh
    BY <1>d, <2>1, <2>2, <2>4 DEF Fresh, AllFresh, InTarget
  <2>6. op' \in {"idle", "may_append"} /\ (seq' = NoRequest \/ op' = "may_append")
    BY <2>1, <2>2
  <2>7. op' \notin {"swap_in", "swap_out", "deallocate"}
    BY <2>6
  <2> QED
    BY <2>1, <2>5, <2>6, <2>7, RoomFrame
<1>8. CASE EngineSwapIn
  BY <1>8, SwapInRoom
<1>9. CASE EngineSwapOut
  BY <1>9, SwapOutRoom
<1>10. CASE EngineDrop
  BY <1>10, DropRoom
<1>11. CASE EngineDecode
  <2>1. /\ UNCHANGED <<swap_in_map, cpu_free_block_ids, running, seq, phase>>
        /\ seq \in Request /\ phase = "decode" /\ op' \in {"idle", "may_append"} /\ op = "idle"
    BY <1>11, DecodeMove
  <2>2. UNCHANGED block_table
        \/ (op' = "may_append" /\ \A t \in Request : t # seq => block_table'[t] = block_table[t])
    <3>1. UNCHANGED block_table
          \/ (op' = "may_append" /\ \E x : block_table' = [block_table EXCEPT ![seq] = x])
      <4>1. UNCHANGED block_table
            \/ \E new \in BlockId :
                 /\ block_table' = [block_table EXCEPT ![seq] =
                                    [block_table[seq] EXCEPT ![Len(block_table[seq])] = new]]
                 /\ op' = "may_append"
        BY <1>11, DecodeMove
      <4> QED
        BY <4>1
    <3> QED
      BY <3>1, <1>t
  <2>3. op' \notin {"swap_in", "swap_out", "deallocate"}
    BY <2>1
  <2>4. CASE UNCHANGED block_table
    BY <2>1, <2>3, <2>4, SameFresh, RoomFrame
  <2>5. CASE op' = "may_append" /\ \A t \in Request : t # seq => block_table'[t] = block_table[t]
    <3>1. seq \notin Range(running)
      BY <2>1, <1>b DEF QueueInv, Taken
    <3>2. \A k \in DOMAIN running : running[k] # seq
      BY <3>1 DEF Range
    <3>3. \A k \in DOMAIN running : /\ running[k] \in Fresh' <=> running[k] \in Fresh
                                    /\ running[k] \in AllFresh' <=> running[k] \in AllFresh
      BY <1>d, <2>1, <2>5, <3>2 DEF Fresh, AllFresh, InTarget
    <3> QED
      BY <2>1, <2>3, <2>5, <3>3, RoomFrame
  <2> QED
    BY <2>2, <2>4, <2>5
<1> QED
  BY <1>b, <1>1, <1>2, <1>3, <1>4, <1>5, <1>6, <1>7, <1>8, <1>9, <1>10, <1>11, BranchEntered

=============================================================================
