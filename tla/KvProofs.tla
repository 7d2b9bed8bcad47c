------------------------------ MODULE KvProofs ------------------------------
(***************************************************************************)
(* The KV data: what the page tables name is in the caches, through        *)
(* sharing, copying, swapping, eviction and growth, so attention reads the *)
(* keys and values of its own sequence, for every set of requests, every   *)
(* size of the two caches and every setting of the scheduler.  The         *)
(* invariant is KvInv of KvContent.                                        *)
(***************************************************************************)
EXTENDS EngineProofs

-----------------------------------------------------------------------------
(* The block that the new token of a batch goes to is its sequence's own.  *)

\* A step that takes entries away, of sequences outside the batch only.
LEMMA AloneFrame ==
  ASSUME AloneInv,
         \A t \in Request : Decoding(t)' => Decoding(t) /\ block_table'[t] = block_table[t],
         \A s \in Request : \A i \in Held(s)' :
           i \in Held(s) /\ block_table'[s][i] = block_table[s][i]
  PROVE  AloneInv'
BY DEF AloneInv

\* Where a sequence of the batch has its last token.
LEMMA BatchLast ==
  ASSUME TypeOK, TablesFollowStatus, NEW t \in Request, status[t] = "running",
         ~(op = "swap_out" /\ cur = t)
  PROVE  /\ Len(block_table[t]) \in Nat \ {0} /\ Len(block_table[t]) \in Held(t)
         /\ Last(block_table[t]) = block_table[t][Len(block_table[t])]
         /\ Last(block_table[t]) \in BlockId
<1>1. block_table[t] \in Seq(BlockId) /\ block_table[t] # <<>>
  BY DEF TypeOK, TablesFollowStatus
<1>2. Len(block_table[t]) \in Nat \ {0} /\ DOMAIN block_table[t] = 1 .. Len(block_table[t])
  BY <1>1, LenProperties, EmptySeq
<1> QED
  BY <1>1, <1>2, EndsType DEF Held, Last

\* The sequence that a method works on is not in the batch.
LEMMA CurOutside ==
  ASSUME BaseInv, phase = "decode", op \in {"swap_out", "deallocate", "may_append"}
  PROVE  cur \in Request /\ cur \notin Batch
<1>b. TypeOK /\ QueueInv /\ CallPlace /\ MethodHasRoom
  BY ListTypes
<1>1. cur \in Request
  BY <1>b DEF TypeOK
<1>2. CASE op = "swap_out"
  BY <1>b, <1>1, <1>2 DEF QueueInv, Taken, Owned, MethodHasRoom
<1>3. CASE op = "deallocate"
  BY <1>b, <1>1, <1>3 DEF QueueInv, Taken, Owned, CallPlace
<1>4. CASE op = "may_append"
  BY <1>b, <1>1, <1>4 DEF QueueInv, CallPlace
<1> QED
  BY <1>1, <1>2, <1>3, <1>4

\* A sequence of the batch is running, its blocks are used.
LEMMA DecodingRuns ==
  ASSUME BaseInv, NEW t \in Request, Decoding(t)
  PROVE  /\ t \in Batch /\ status[t] = "running" /\ placed[t] /\ ~(op = "swap_out" /\ cur = t)
         /\ phase \in {"decode", "run"}
<1>b. PlacedInv /\ CallPlace
  BY ListTypes
<1>1. t \in Batch /\ phase \in {"decode", "run"}
  BY DEF Decoding, Batch
<1>2. t \in InFlight
  BY <1>1 DEF InFlight
<1>3. ~(op = "swap_out" /\ cur = t)
  BY <1>1, <1>b, CurOutside DEF CallPlace
<1> QED
  BY <1>1, <1>2, <1>3, <1>b DEF PlacedInv, FlightInv

(***************************************************************************)
(* One step of may_append: it leaves the sequence alone with its last      *)
(* block, be it a new one, one just filled, or one that was copied.        *)
(***************************************************************************)
LEMMA DecodeStepAlone ==
  ASSUME BaseInv, AloneInv, DecodeStep
  PROVE  AloneInv'
<1>b. /\ TypeOK /\ TypeInv /\ TablesFollowStatus /\ PoolInv /\ FitInv /\ CallPlace /\ QueueType
      /\ SharedBlocksFull
  BY ListTypes DEF CacheInv, LabelInv
<1>1. op = "may_append" /\ AppendStep
  BY DEF DecodeStep, AppendStep, AppendNewBlock, AppendFillsBlock, AppendInside, AppendRaises,
         Appending
<1>2. PICK s \in Request : s = cur
  BY <1>1, <1>b DEF TypeOK
<1>p. phase = "decode" /\ phase' = phase /\ s \notin Batch
  BY <1>1, <1>2, <1>b, CurOutside DEF CallPlace, DecodeStep
<1>3. PICK n \in Nat \ {0} : n = Len(block_table[s])
  BY <1>1, <1>2, <1>b, AppendPosition
<1>4. n \in Held(s) /\ last_block(s) = block_table[s][n] /\ last_block(s) \in BlockId
  BY <1>1, <1>3, <1>b, LastHeld
<1>5. \/ scheduled_seqs' = scheduled_seqs /\ op' = op
      \/ scheduled_seqs' = Append(scheduled_seqs, s) /\ op' = "idle"
  <2>1. op' = "idle" \/ op' = op
    BY <1>1 DEF AppendStep, AppendNewBlock, AppendFillsBlock, AppendInside, AppendRaises,
                AppendDone, Return, Call, Raise, callVars
  <2> QED
    BY <1>1, <1>2, <2>1 DEF DecodeStep
<1>6. Batch' \subseteq Batch \cup {s}
  <2>1. scheduled_seqs \in Seq(Request)
    BY <1>b DEF QueueType
  <2> QED
    <3>1. Range(Append(scheduled_seqs, s)) \subseteq Range(scheduled_seqs) \cup {s}
      BY <2>1, AppendBatch
    <3> QED
      BY <1>5, <3>1 DEF Batch
<1>7. ASSUME NEW t \in Request, Decoding(t)', t # s
      PROVE  Decoding(t)
  BY <1>6, <1>7, <1>p DEF Decoding, Batch
<1>8. CASE AppendRaises
  <2>1. UNCHANGED <<block_table, cpu_block_table, op, cur>>
    BY <1>8 DEF AppendRaises, Raise, callVars
  <2>2. \A u \in Request : Held(u)' = Held(u)
    BY <2>1 DEF Held
  <2>3. scheduled_seqs' = scheduled_seqs
    BY <1>1, <1>5, <2>1
  <2>4. \A t \in Request : Decoding(t)' => Decoding(t)
    BY <1>p, <2>3 DEF Decoding, Batch
  <2> QED
    BY <2>1, <2>2, <2>4, AloneFrame
<1>9. CASE AppendFillsBlock \/ AppendInside
  <2>1. /\ UNCHANGED block_table /\ op' = "idle" /\ block_hash[last_block(s)] = NoHash
    BY <1>2, <1>9 DEF AppendFillsBlock, AppendInside, AppendDone, Return, Call
  <2>2. \A u \in Request : Held(u)' = Held(u)
    BY <1>1, <2>1 DEF Held
  <2>3. ASSUME NEW t \in Request, Decoding(t)', NEW u \in Request, NEW i \in Held(u)',
               block_table'[u][i] = Last(block_table'[t])
        PROVE  u = t /\ i = Len(block_table'[t])
    <3>1. i \in Held(u) /\ block_table[u][i] = Last(block_table[t])
      BY <2>1, <2>2, <2>3
    <3>2. CASE t = s
      <4>1. EntryHash(s, n) = NoHash
        BY <1>4, <2>1 DEF EntryHash
      <4>2. block_table[u][i] = block_table[s][n]
        BY <1>4, <3>1, <3>2 DEF last_block
      <4>3. u = s /\ i = n
        BY <1>4, <1>b, <3>1, <4>1, <4>2, UnlabelledAlone
      <4> QED
        BY <1>3, <2>1, <3>2, <4>3
    <3>3. CASE t # s
      <4>1. Decoding(t)
        BY <1>7, <2>3, <3>3
      <4> QED
        BY <2>1, <3>1, <4>1 DEF AloneInv
    <3> QED
      BY <3>2, <3>3
  <2> QED
    BY <2>3 DEF AloneInv
<1>10. CASE AppendNewBlock
  <2>1. PICK b \in BlockId : /\ b = Head(free_block_ids) /\ ref_count[b] = 0
                             /\ block_table' = [block_table EXCEPT ![s] = Append(block_table[s], b)]
                             /\ op' = "idle"
    BY <1>2, <1>10, <1>b, HeadUncounted DEF AppendNewBlock, AppendDone, Return, Call
  <2>2. /\ block_table'[s][n + 1] = b
        /\ Len(block_table'[s]) = n + 1
        /\ \A u \in Request : \A i \in Held(u)' : ~ (u = s /\ i = n + 1) =>
             i \in Held(u) /\ block_table'[u][i] = block_table[u][i]
    <3>1. op # "swap_out" /\ op' # "swap_out"
      BY <1>1, <2>1
    <3>2. block_table' = [block_table EXCEPT ![s] = Append(block_table[s], b)]
      BY <2>1
    <3>3. block_table'[s][Len(block_table[s]) + 1] = b
      BY <1>b, <3>1, <3>2, GrownTable
    <3>4. Len(block_table'[s]) = Len(block_table[s]) + 1
      BY <1>b, <3>1, <3>2, GrownTable
    <3>5. \A u \in Request : \A i \in Held(u)' : ~ (u = s /\ i = Len(block_table[s]) + 1) =>
            i \in Held(u) /\ block_table'[u][i] = block_table[u][i]
      BY <1>b, <3>1, <3>2, GrownHeld
    <3> QED
      BY <1>3, <3>3, <3>4, <3>5
  <2>3. Last(block_table'[s]) = b
    BY <2>2 DEF Last
  <2>t. block_table \in [Request -> Seq(BlockId)]
    BY <1>b DEF TypeOK
  <2>4. ASSUME NEW t \in Request, Decoding(t)', NEW u \in Request, NEW i \in Held(u)',
               block_table'[u][i] = Last(block_table'[t])
        PROVE  u = t /\ i = Len(block_table'[t])
    <3>1. CASE t = s
      <4>1. block_table'[u][i] = b
        BY <2>3, <2>4, <3>1
      <4>2. u = s /\ i = n + 1
        <5>1. SUFFICES ASSUME ~ (u = s /\ i = n + 1) PROVE FALSE
          OBVIOUS
        <5>2. i \in Held(u) /\ block_table[u][i] = b
          BY <2>2, <4>1, <5>1
        <5> QED
          BY <1>b, <2>1, <5>2, NotHeld
      <4> QED
        BY <2>2, <3>1, <4>2
    <3>2. CASE t # s
      <4>1. Decoding(t)
        BY <1>7, <2>4, <3>2
      <4>2. block_table'[t] = block_table[t]
        BY <2>1, <2>t, <3>2
      <4>3. Last(block_table[t]) # b
        <5>1. status[t] = "running" /\ ~(op = "swap_out" /\ cur = t)
          BY <4>1, DecodingRuns
        <5>2. Len(block_table[t]) \in Held(t)
              /\ Last(block_table[t]) = block_table[t][Len(block_table[t])]
          BY <5>1, <1>b, BatchLast
        <5> QED
          BY <5>2, <1>b, <2>1, NotHeld
      <4>4. ~(u = s /\ i = n + 1)
        BY <2>2, <2>4, <4>2, <4>3
      <4>5. i \in Held(u) /\ block_table[u][i] = Last(block_table[t])
        BY <2>2, <2>4, <4>2, <4>4
      <4> QED
        BY <4>1, <4>2, <4>5 DEF AloneInv
    <3> QED
      BY <3>1, <3>2
  <2> QED
    BY <2>4 DEF AloneInv
<1> QED
  BY <1>1, <1>8, <1>9, <1>10 DEF AppendStep

\* copy_on_write replaces a block that others hold.
LEMMA DecodeAlone ==
  ASSUME BaseInv, AloneInv, EngineDecode
  PROVE  AloneInv'
<1>b. /\ TypeOK /\ TablesFollowStatus /\ PoolInv
  BY ListTypes
<1>1. /\ seq \in Request /\ seq \notin Batch /\ op = "idle" /\ op' \in {"idle", "may_append"}
      /\ UNCHANGED <<phase, scheduled_seqs, is_prefill, cpu_block_table>>
  BY DecodeMove
<1>2. \A t \in Request : Decoding(t)' => Decoding(t)
  BY <1>1 DEF Decoding, Batch
<1>h. /\ \A s \in Request : Held(s) = DOMAIN block_table[s]
      /\ \A s \in Request : Held(s)' = DOMAIN block_table'[s]
  BY <1>1 DEF Held
<1>3. CASE UNCHANGED block_table
  BY <1>2, <1>3, <1>h, AloneFrame
<1>4. CASE \E new \in BlockId : LET n == Len(block_table[seq]) IN
             /\ n \in DOMAIN block_table[seq] /\ ref_count[new] = 0
             /\ block_table' = [block_table EXCEPT ![seq] = [block_table[seq] EXCEPT ![n] = new]]
  <2> DEFINE n == Len(block_table[seq])
  <2>1. PICK new \in BlockId :
             /\ n \in DOMAIN block_table[seq] /\ ref_count[new] = 0
             /\ block_table' = [block_table EXCEPT ![seq] = [block_table[seq] EXCEPT ![n] = new]]
    BY <1>4
  <2>t. block_table \in [Request -> Seq(BlockId)]
    BY <1>b DEF TypeOK
  <2>2. block_table'[seq] = [block_table[seq] EXCEPT ![n] = new]
    BY <1>1, <2>1, <2>t
  <2>3. ASSUME NEW t \in Request, Decoding(t)', NEW u \in Request, NEW i \in Held(u)',
               block_table'[u][i] = Last(block_table'[t])
        PROVE  u = t /\ i = Len(block_table'[t])
    <3>1. Decoding(t) /\ t # seq
      BY <1>1, <1>2, <2>3 DEF Decoding, Batch
    <3>2. block_table'[t] = block_table[t]
      BY <2>1, <2>t, <3>1
    <3>3. Last(block_table[t]) # new
      <4>1. status[t] = "running" /\ ~(op = "swap_out" /\ cur = t)
        BY <3>1, DecodingRuns
      <4>2. Len(block_table[t]) \in Held(t)
            /\ Last(block_table[t]) = block_table[t][Len(block_table[t])]
        BY <4>1, <1>b, BatchLast
      <4> QED
        BY <4>2, <1>b, <2>1, NotHeld
    <3>4. ~(u = seq /\ i = n)
      BY <2>1, <2>2, <2>3, <3>2, <3>3
    <3>5. i \in Held(u) /\ block_table[u][i] = block_table'[u][i]
      BY <1>h, <2>1, <2>2, <2>3, <2>t, <3>4
    <3> QED
      BY <2>3, <3>1, <3>2, <3>5 DEF AloneInv
  <2> QED
    BY <2>3 DEF AloneInv
<1>5. UNCHANGED block_table \/ \E new \in BlockId : LET n == Len(block_table[seq]) IN
             /\ n \in DOMAIN block_table[seq] /\ ref_count[new] = 0
             /\ block_table' = [block_table EXCEPT ![seq] = [block_table[seq] EXCEPT ![n] = new]]
  BY DecodeMove
<1> QED
  BY <1>3, <1>4, <1>5

\* From then on nobody gets hold of the block before its token is stored (AloneInv).
LEMMA AloneStep ==
  ASSUME BaseInv, AloneInv, [EngineNext]_systemVars
  PROVE  AloneInv'
<1>b. /\ TypeOK /\ PlaceInv /\ CallPlace /\ SeqPlace /\ MethodHasRoom /\ ClientInv
  BY ListTypes
<1>t. block_table \in [Request -> Seq(BlockId)]
  BY <1>b DEF TypeOK
<1>n. [SchedulerNext]_allVars
  BY SchedulerSteps
<1>none. ASSUME \A t \in Request : ~Decoding(t)' PROVE AloneInv'
  BY <1>none DEF AloneInv
<1>u. ASSUME UNCHANGED <<block_table, cpu_block_table, op, cur>>,
             \A t \in Request : Decoding(t)' => Decoding(t)
      PROVE  AloneInv'
  <2>1. \A s \in Request : Held(s)' = Held(s)
    BY <1>u DEF Held
  <2> QED
    BY <1>u, <2>1, AloneFrame
<1>1. CASE phase' \notin {"decode", "run"}
  BY <1>1, <1>none DEF Decoding, Batch
<1>2. CASE phase' = "run"
  <2>1. CASE AdmitEnd /\ is_prefill'
    BY <1>2, <2>1, <1>none DEF Decoding, Batch
  <2>2. CASE DecodeEnd
    <3>1. UNCHANGED <<block_table, cpu_block_table, op, cur, scheduled_seqs>> /\ phase = "decode"
      BY <2>2 DEF DecodeEnd, DecodeLoopDone, vars, callVars
    <3> QED
      BY <1>2, <3>1, <1>u DEF Decoding, Batch
  <2>3. CASE UNCHANGED allVars
    BY <2>3, <1>u DEF Decoding, Batch, allVars, vars, callVars, schedulerVars, batchVars
  <2> QED
    BY <1>2, <1>b, <1>n, <2>1, <2>2, <2>3, RunEntered
<1>3. CASE phase' = "decode"
  <2>1. CASE UNCHANGED systemVars
    BY <2>1, <1>u DEF Decoding, Batch, systemVars, allVars, vars, callVars, schedulerVars, batchVars
  <2>2. CASE AdmitEnd \/ SwapIn \/ EngineSwapIn
    <3>1. (phase = "swap_in" /\ phase' = phase) \/ phase' \in {"run", "swap_in"}
      BY <2>2, <1>b, MovePlace DEF AdmitEnd, SwapIn, Goto, schedulerVars
    <3> QED
      BY <1>3, <3>1
  <2>3. CASE SwapInEnd
    <3>1. scheduled_seqs' = <<>>
      BY <2>3, <1>b DEF SwapInEnd, SeqPlace, batchVars
    <3> QED
      BY <1>3, <3>1, <1>none DEF Decoding, Batch, Range
  <2>4. CASE PickDecode
    BY <2>4, <1>u DEF PickDecode, vars, callVars, batchVars, Decoding, Batch
  <2>5. CASE Evict
    <3>1. /\ UNCHANGED <<block_table, phase, scheduled_seqs>> /\ op = "idle" /\ phase = "decode"
      BY <2>5 DEF Evict, Deciding, Idle, Preempt, batchVars
    <3>2. \A s \in Request : \A i \in Held(s)' : i \in Held(s)
      BY <3>1 DEF Held
    <3> QED
      BY <3>1, <3>2, AloneFrame DEF Decoding, Batch
  <2>6. CASE DecodeStep
    BY <2>6, DecodeStepAlone
  <2>7. CASE EngineSwapOut
    <3>1. PICK s \in Request : s = cur
      BY <2>7, <1>b DEF EngineSwapOut, EvictSwapStep, SwapOutStep, TypeOK
    <3>2. /\ \/ UNCHANGED <<block_table, op, cur>>
             \/ block_table' = [block_table EXCEPT ![s] = <<>>] /\ op' = "idle"
          /\ UNCHANGED <<phase, scheduled_seqs>> /\ op = "swap_out" /\ phase = "decode"
          /\ \E c : cpu_block_table' = [cpu_block_table EXCEPT ![s] = Append(cpu_block_table[s], c)]
          /\ cpu_block_table[s] \in Seq(CpuBlockId)
      BY <2>7, <3>1, SwapOutMove
    <3>3. s \notin Batch
      BY <3>1, <3>2, CurOutside
    <3>4. \A t \in Request : Decoding(t)' => Decoding(t) /\ block_table'[t] = block_table[t]
      BY <3>2, <3>3, <1>t DEF Decoding, Batch
    <3>5. ASSUME NEW u \in Request, NEW i \in Held(u)'
          PROVE  i \in Held(u) /\ block_table'[u][i] = block_table[u][i]
      <4>1. CASE UNCHANGED <<block_table, op, cur>>
        <5>1. PICK c : cpu_block_table' =
                         [cpu_block_table EXCEPT ![s] = Append(cpu_block_table[s], c)]
          BY <3>2
        <5>2. cpu_block_table'[s] = Append(cpu_block_table[s], c)
              /\ Len(cpu_block_table[s]) \in Nat
              /\ Len(Append(cpu_block_table[s], c)) = Len(cpu_block_table[s]) + 1
          BY <5>1, <3>2, <1>b, LenProperties DEF TypeOK
        <5>3. DOMAIN block_table[u] \subseteq Nat
          BY <1>t, LenProperties
        <5> QED
          BY <4>1, <5>2, <5>3, <3>1, <3>2, <3>5 DEF Held
      <4>2. CASE block_table' = [block_table EXCEPT ![s] = <<>>] /\ op' = "idle"
        <5>1. i \in DOMAIN block_table'[u]
          BY <3>5 DEF Held
        <5>2. u # s
          BY <4>2, <5>1, <1>t
        <5> QED
          BY <4>2, <5>1, <5>2, <3>1, <1>t DEF Held
      <4> QED
        BY <3>2, <4>1, <4>2
    <3> QED
      BY <3>4, <3>5, AloneFrame
  <2>8. CASE EngineDrop
    <3>1. /\ UNCHANGED <<phase, scheduled_seqs>> /\ op = "deallocate" /\ phase = "decode"
          /\ block_table' = [block_table EXCEPT ![cur] = Front(@)]
          /\ op' \in {"deallocate", "idle"}
      BY <2>8, <1>b DEF EngineDrop, EvictDropStep, DeallocateStep, callVars, Return, Call, batchVars
    <3>2. cur \notin Batch /\ cur \in Request
      BY <3>1, CurOutside
    <3>3. \A t \in Request : Decoding(t)' => Decoding(t) /\ block_table'[t] = block_table[t]
      BY <3>1, <3>2, <1>t DEF Decoding, Batch
    <3>4. block_table[cur] \in Seq(BlockId) /\ block_table[cur] # <<>>
      BY <3>1, <3>2, <1>t, <1>b DEF MethodHasRoom
    <3>5. /\ \A i \in DOMAIN Front(block_table[cur]) :
               i \in DOMAIN block_table[cur] /\ Front(block_table[cur])[i] = block_table[cur][i]
      <4>1. DOMAIN block_table[cur] = 1 .. Len(block_table[cur]) /\ Len(block_table[cur]) \in Nat
        BY <3>4, LenProperties
      <4> QED
        BY <3>4, <4>1, FrontElements
    <3>6. ASSUME NEW u \in Request, NEW i \in Held(u)'
          PROVE  i \in Held(u) /\ block_table'[u][i] = block_table[u][i]
      BY <3>1, <3>2, <3>5, <3>6, <1>t DEF Held
    <3> QED
      BY <3>3, <3>6, AloneFrame
  <2>9. CASE EngineDecode
    BY <2>9, DecodeAlone
  <2> QED
    BY <1>3, <1>b, <2>1, <2>2, <2>3, <2>4, <2>5, <2>6, <2>7, <2>8, <2>9, BranchEntered
<1> QED
  BY <1>1, <1>2, <1>3

-----------------------------------------------------------------------------
(* The caches after the moves on the lists.                                *)

\* What a block of the cache holds.
Content == [Slots -> Seq(Token)]

\* A block that is no move's target keeps its content.
LEMMA NotMoved ==
  ASSUME NEW to, NEW from, NEW pairs, NEW b \in DOMAIN to,
         \A p \in Range(pairs) : p[2] # b
  PROVE  Transfer(to, from, pairs)[b] = to[b]
BY DEF Transfer

\* The only move to a block brings the content of its source.
LEMMA MovedTo ==
  ASSUME NEW to, NEW from, NEW more, NEW m \in Range(more), m[2] \in DOMAIN to,
         \A p \in Range(more) : p[2] = m[2] => p = m
  PROVE  Transfer(to, from, more)[m[2]] = from[m[1]]
<1>1. (CHOOSE p \in Range(more) : p[2] = m[2]) = m
  OBVIOUS
<1> DEFINE f == CHOOSE p \in Range(more) : p[2] = m[2]
<1>2. Transfer(to, from, more)[m[2]] = from[f[1]]
  BY DEF Transfer
<1> HIDE DEF f
<1>3. f = m
  BY <1>1 DEF f
<1> QED
  BY <1>2, <1>3

\* Moves to other blocks do not matter.
LEMMA SameMoves ==
  ASSUME NEW to, NEW from, NEW pairs, NEW more, NEW c \in DOMAIN to,
         \A p : (p \in Range(more) /\ p[2] = c) <=> (p \in Range(pairs) /\ p[2] = c)
  PROVE  Transfer(to, from, more)[c] = Transfer(to, from, pairs)[c]
<1>1. (\E p \in Range(more) : p[2] = c) <=> (\E p \in Range(pairs) : p[2] = c)
  OBVIOUS
<1>2. (CHOOSE p \in Range(more) : p[2] = c) = (CHOOSE p \in Range(pairs) : p[2] = c)
  OBVIOUS
<1> QED
  BY <1>1, <1>2 DEF Transfer

\* The caches after the moves are caches.
LEMMA FinalTypes ==
  ASSUME BaseInv
  PROVE  /\ CopiedKv \in [BlockId -> Content]
         /\ FinalCpu \in [CpuBlockId -> Content]
         /\ FinalKv \in [BlockId -> Content]
         /\ kv_cache \in [BlockId -> Content]
         /\ cpu_kv_cache \in [CpuBlockId -> Content]
<1>1. /\ kv_cache \in [BlockId -> Content]
      /\ cpu_kv_cache \in [CpuBlockId -> Content]
      /\ cow_pairs \in Seq(BlockId \X BlockId)
      /\ swap_in_map \in Seq(CpuBlockId \X BlockId)
      /\ swap_out_map \in Seq(BlockId \X CpuBlockId)
  BY DEF BaseInv, EngineTypeOK, Content
<1> HIDE DEF Content
<1>2. CopiedKv \in [BlockId -> Content]
  <2>1. CopiesOf(kv_cache, cow_pairs) \in [BlockId -> Content]
    BY <1>1, CopiesType
  <2> QED
    BY <1>1, <2>1 DEF CopiedKv
<1>3. FinalCpu \in [CpuBlockId -> Content]
  <2>1. Transfer(cpu_kv_cache, CopiedKv, swap_out_map) \in [CpuBlockId -> Content]
    BY <1>1, <1>2, TransferType
  <2> QED
    BY <1>1, <2>1 DEF FinalCpu
<1>4. FinalKv \in [BlockId -> Content]
  <2>1. Transfer(CopiedKv, FinalCpu, swap_in_map) \in [BlockId -> Content]
    BY <1>1, <1>2, <1>3, TransferType
  <2> QED
    BY <1>1, <2>1 DEF FinalKv
<1> QED
  BY <1>1, <1>2, <1>3, <1>4

\* Steps that touch neither the caches nor the lists.
LEMMA FinalSame ==
  ASSUME UNCHANGED <<kvVars, moveVars, stage>>, Pending' = Pending
  PROVE  FinalKv' = FinalKv /\ FinalCpu' = FinalCpu
<1>1. /\ kv_cache' = kv_cache /\ cpu_kv_cache' = cpu_kv_cache /\ cow_pairs' = cow_pairs
      /\ swap_in_map' = swap_in_map /\ swap_out_map' = swap_out_map /\ stage' = stage
  BY DEF kvVars, moveVars
<1>2. CopiedKv' = CopiedKv
  BY <1>1 DEF CopiedKv
<1>3. FinalCpu' = FinalCpu
  BY <1>1, <1>2 DEF FinalCpu, Transfer
<1>4. FinalKv' = FinalKv
  BY <1>1, <1>2, <1>3 DEF FinalKv, Transfer
<1> QED
  BY <1>3, <1>4

\* schedule begins with empty lists.
LEMMA FinalSchedule ==
  ASSUME BaseInv, StageInv, EngineSchedule
  PROVE  FinalKv' = FinalKv /\ FinalCpu' = FinalCpu
<1>1. /\ phase = "idle" /\ phase' \in {"resume", "admit"}
      /\ cow_pairs' = <<>> /\ swap_in_map' = <<>> /\ swap_out_map' = <<>>
      /\ kv_cache' = kv_cache /\ cpu_kv_cache' = cpu_kv_cache /\ stage' = stage
  BY MovePlace DEF EngineSchedule, BaseInv, kvVars
<1>2. FinalKv = kv_cache /\ FinalCpu = cpu_kv_cache
  BY <1>1 DEF FinalKv, FinalCpu, Pending
<1>3. Pending' /\ stage' = "copy"
  BY <1>1 DEF Pending, StageInv
<1>4. CopiedKv' = kv_cache
  BY <1>1, <1>3, CopiesNone DEF CopiedKv
<1>5. FinalCpu' = Transfer(cpu_kv_cache, CopiedKv', <<>>)
  BY <1>1, <1>3 DEF FinalCpu, Transfer
<1>6. FinalCpu' = cpu_kv_cache
  BY <1>5, FinalTypes, TransferNone
<1>7. FinalKv' = Transfer(CopiedKv', FinalCpu', <<>>)
  BY <1>1, <1>3 DEF FinalKv, Transfer
<1>8. FinalKv' = kv_cache
  BY <1>4, <1>7, FinalTypes, TransferNone
<1> QED
  BY <1>2, <1>6, <1>8

\* The calls carry out what is expected of them.
LEMMA FinalCalls ==
  ASSUME CopyKvBlocks \/ SwapBlocksOut \/ SwapBlocksIn
  PROVE  FinalKv' = FinalKv /\ FinalCpu' = FinalCpu
<1>1. phase = "run" /\ phase' = phase /\ UNCHANGED <<cow_pairs, swap_in_map, swap_out_map>>
  BY DEF CopyKvBlocks, SwapBlocksOut, SwapBlocksIn, Calling, allVars, schedulerVars, moveVars
<1>2. Pending /\ Pending'
  BY <1>1 DEF Pending
<1>3. CASE CopyKvBlocks
  <2>1. /\ stage = "copy" /\ stage' = "swap_out" /\ cpu_kv_cache' = cpu_kv_cache
        /\ kv_cache' = CopiesOf(kv_cache, cow_pairs)
    BY <1>3 DEF CopyKvBlocks, Calling, CopiesOf
  <2>2. CopiedKv' = CopiedKv
    BY <1>2, <2>1 DEF CopiedKv
  <2>3. FinalCpu' = FinalCpu
    BY <1>1, <1>2, <2>1, <2>2 DEF FinalCpu, Transfer
  <2> QED
    BY <1>1, <1>2, <2>1, <2>2, <2>3 DEF FinalKv, Transfer
<1>4. CASE SwapBlocksOut
  <2>1. /\ stage = "swap_out" /\ stage' = "swap_in" /\ kv_cache' = kv_cache
        /\ cpu_kv_cache' = Transfer(cpu_kv_cache, kv_cache, swap_out_map)
    BY <1>4 DEF SwapBlocksOut, Calling
  <2>2. CopiedKv' = CopiedKv /\ CopiedKv = kv_cache
    BY <1>2, <2>1 DEF CopiedKv
  <2>3. FinalCpu' = FinalCpu
    BY <1>1, <1>2, <2>1, <2>2 DEF FinalCpu
  <2> QED
    BY <1>1, <1>2, <2>1, <2>2, <2>3 DEF FinalKv, Transfer
<1>5. CASE SwapBlocksIn
  <2>1. /\ stage = "swap_in" /\ stage' = "run" /\ cpu_kv_cache' = cpu_kv_cache
        /\ kv_cache' = Transfer(kv_cache, cpu_kv_cache, swap_in_map)
    BY <1>5 DEF SwapBlocksIn, Calling
  <2>2. CopiedKv = kv_cache
    BY <1>2, <2>1 DEF CopiedKv
  <2>3. FinalCpu' = FinalCpu /\ FinalCpu = cpu_kv_cache
    BY <1>1, <1>2, <2>1 DEF FinalCpu
  <2> QED
    BY <1>1, <1>2, <2>1, <2>2, <2>3 DEF FinalKv
<1> QED
  BY <1>3, <1>4, <1>5

\* When the batch is run, the lists are done with.
LEMMA FinalRun ==
  ASSUME RunModel, phase' \notin Failures
  PROVE  /\ FinalKv = kv_cache /\ FinalCpu = cpu_kv_cache
         /\ FinalKv' = Stored /\ FinalCpu' = FinalCpu
<1>1. /\ phase = "run" /\ stage = "run" /\ phase' \in {"record", "postprocess"}
      /\ kv_cache' = Stored /\ cpu_kv_cache' = cpu_kv_cache
  BY DEF RunModel, Calling, Run, Failures, Goto
<1> QED
  BY <1>1 DEF FinalKv, FinalCpu, Pending

(***************************************************************************)
(* swap_in announces a move into a free block: it will hold what the CPU   *)
(* block will, whatever is moved out before.                               *)
(***************************************************************************)
LEMMA FinalSwapIn ==
  ASSUME BaseInv, StageInv, MovesInv, TargetsInv, EngineSwapIn,
         NEW g \in BlockId, NEW c \in CpuBlockId, ref_count[g] = 0,
         swap_in_map' = Append(swap_in_map, <<c, g>>)
  PROVE  /\ FinalKv'[g] = FinalCpu[c]
         /\ \A x \in BlockId : x # g => FinalKv'[x] = FinalKv[x]
         /\ FinalCpu' = FinalCpu
<1>1. phase = "swap_in" /\ phase' = phase
  BY MovePlace DEF BaseInv
<1>2. /\ kv_cache' = kv_cache /\ cpu_kv_cache' = cpu_kv_cache /\ cow_pairs' = cow_pairs
      /\ swap_out_map' = swap_out_map /\ stage' = stage
  BY DEF EngineSwapIn, kvVars
<1>3. Pending /\ Pending' /\ stage = "copy"
  BY <1>1 DEF Pending, StageInv
<1>4. CopiedKv' = CopiedKv
  BY <1>2, <1>3 DEF CopiedKv
<1>5. FinalCpu' = FinalCpu
  BY <1>2, <1>3, <1>4 DEF FinalCpu, Transfer
<1>6. FinalKv' = Transfer(CopiedKv, FinalCpu, Append(swap_in_map, <<c, g>>))
  BY <1>2, <1>3, <1>4, <1>5 DEF FinalKv, Transfer
<1>7. FinalKv = Transfer(CopiedKv, FinalCpu, swap_in_map)
  BY <1>3 DEF FinalKv
<1>8. \A p \in Range(swap_in_map) : p[2] # g
  BY <1>1 DEF TargetsInv
<1>9. swap_in_map \in Seq(CpuBlockId \X BlockId) /\ <<c, g>> \in CpuBlockId \X BlockId
  BY ListTypes
<1>10. CopiedKv \in [BlockId -> Content]
  BY FinalTypes
<1>11. /\ FinalKv'[g] = FinalCpu[c]
       /\ \A x \in BlockId : x # g => FinalKv'[x] = FinalKv[x]
  <2>1. Range(swap_in_map') = Range(swap_in_map) \cup {<<c, g>>}
    BY <1>9, RangeAppend
  <2>2. g \in DOMAIN CopiedKv
    BY <1>10
  <2>3. FinalKv' = Transfer(CopiedKv, FinalCpu, swap_in_map')
    BY <1>6
  <2>4. \A x \in BlockId : x \in DOMAIN CopiedKv
    BY <1>10
  <2>m. PICK m : m = <<c, g>>
    OBVIOUS
  <2>n. /\ m[2] \in DOMAIN CopiedKv /\ \A p \in Range(swap_in_map) : p[2] # m[2]
        /\ \A p : p \in Range(swap_in_map') <=> p \in Range(swap_in_map) \/ p = m
    BY <1>8, <2>1, <2>2, <2>m
  <2>o. m \in Range(swap_in_map') /\ \A p \in Range(swap_in_map') : p[2] = m[2] => p = m
    BY <2>n
  <2>5. Transfer(CopiedKv, FinalCpu, swap_in_map')[m[2]] = FinalCpu[m[1]]
    BY <2>n, <2>o, MovedTo, Z3
  <2>p. \A x : x # m[2] => \A p : (p \in Range(swap_in_map') /\ p[2] = x)
                               <=> (p \in Range(swap_in_map) /\ p[2] = x)
    BY <2>n
  <2>6. \A x \in BlockId : x # m[2] => Transfer(CopiedKv, FinalCpu, swap_in_map')[x]
                                     = Transfer(CopiedKv, FinalCpu, swap_in_map)[x]
    BY <2>p, <2>4, SameMoves
  <2> QED
    BY <1>7, <2>m, <2>3, <2>5, <2>6
<1> QED
  BY <1>5, <1>11

(***************************************************************************)
(* swap_out announces a move into a free CPU block: it will hold what the  *)
(* block is going to hold, unless that is swapped in first, which is a     *)
(* clash.                                                                  *)
(***************************************************************************)
LEMMA FinalSwapOut ==
  ASSUME BaseInv, StageInv, TargetsInv, Good', EngineSwapOut,
         NEW b \in BlockId, NEW c \in CpuBlockId,
         c = Head(cpu_free_block_ids), cpu_free_block_ids # <<>>,
         swap_out_map' = Append(swap_out_map, <<b, c>>)
  PROVE  /\ FinalCpu'[c] = FinalKv[b]
         /\ \A x \in CpuBlockId : x # c => FinalCpu'[x] = FinalCpu[x]
         /\ FinalKv' = FinalKv
<1>b. /\ swap_out_map \in Seq(BlockId \X CpuBlockId) /\ <<b, c>> \in BlockId \X CpuBlockId
      /\ cpu_free_block_ids \in Seq(CpuBlockId) /\ IsInjective(cpu_free_block_ids)
  BY ListTypes DEF TypeOK, CpuInv
<1>1. phase = "decode" /\ phase' = phase
  BY MovePlace DEF BaseInv
<1>2. /\ kv_cache' = kv_cache /\ cpu_kv_cache' = cpu_kv_cache /\ cow_pairs' = cow_pairs
      /\ swap_in_map' = swap_in_map /\ stage' = stage
  BY DEF EngineSwapOut, kvVars
<1>3. Pending /\ Pending' /\ stage = "copy" /\ stage' = "copy"
  BY <1>1, <1>2 DEF Pending, StageInv
<1>4. CopiedKv' = CopiedKv
  BY <1>2, <1>3 DEF CopiedKv
<1>5. /\ FinalCpu'[c] = CopiedKv[b]
      /\ \A x \in CpuBlockId : x # c => FinalCpu'[x] = FinalCpu[x]
  <2>1. FinalCpu' = Transfer(cpu_kv_cache, CopiedKv, Append(swap_out_map, <<b, c>>))
    BY <1>2, <1>3, <1>4 DEF FinalCpu, Transfer
  <2>2. FinalCpu = Transfer(cpu_kv_cache, CopiedKv, swap_out_map)
    BY <1>3 DEF FinalCpu
  <2>3. c \in Range(cpu_free_block_ids)
    BY <1>b, TailRange
  <2>4. \A p \in Range(swap_out_map) : p[2] # c
    BY <1>1, <2>3 DEF TargetsInv
  <2>5. cpu_kv_cache \in [CpuBlockId -> Content]
    BY FinalTypes
  <2>6. Range(swap_out_map') = Range(swap_out_map) \cup {<<b, c>>}
    BY <1>b, RangeAppend
  <2>7. c \in DOMAIN cpu_kv_cache /\ FinalCpu' = Transfer(cpu_kv_cache, CopiedKv, swap_out_map')
    BY <2>1, <2>5
  <2>8. \A x \in CpuBlockId : x \in DOMAIN cpu_kv_cache
    BY <2>5
  <2>m. PICK m : m = <<b, c>>
    OBVIOUS
  <2>n. /\ m[2] \in DOMAIN cpu_kv_cache /\ \A p \in Range(swap_out_map) : p[2] # m[2]
        /\ \A p : p \in Range(swap_out_map') <=> p \in Range(swap_out_map) \/ p = m
    BY <2>4, <2>6, <2>7, <2>m
  <2>o. m \in Range(swap_out_map') /\ \A p \in Range(swap_out_map') : p[2] = m[2] => p = m
    BY <2>n
  <2>9. Transfer(cpu_kv_cache, CopiedKv, swap_out_map')[m[2]] = CopiedKv[m[1]]
    BY <2>n, <2>o, MovedTo
  <2>p. \A x : x # m[2] => \A p : (p \in Range(swap_out_map') /\ p[2] = x)
                               <=> (p \in Range(swap_out_map) /\ p[2] = x)
    BY <2>n
  <2>10. \A x \in CpuBlockId : x # m[2] => Transfer(cpu_kv_cache, CopiedKv, swap_out_map')[x]
                                      = Transfer(cpu_kv_cache, CopiedKv, swap_out_map)[x]
    <3>1. SUFFICES ASSUME NEW x \in CpuBlockId, x # m[2]
                   PROVE  Transfer(cpu_kv_cache, CopiedKv, swap_out_map')[x]
                            = Transfer(cpu_kv_cache, CopiedKv, swap_out_map)[x]
      OBVIOUS
    <3>2. \A p : (p \in Range(swap_out_map') /\ p[2] = x)
                   <=> (p \in Range(swap_out_map) /\ p[2] = x)
      BY <2>p, <3>1
    <3>3. PICK to, from, pairs, more :
            /\ to = cpu_kv_cache /\ from = CopiedKv
            /\ pairs = swap_out_map /\ more = swap_out_map'
      OBVIOUS
    <3>4. /\ x \in DOMAIN to
          /\ \A p : (p \in Range(more) /\ p[2] = x) <=> (p \in Range(pairs) /\ p[2] = x)
      BY <2>8, <3>2, <3>3
    <3>5. Transfer(to, from, more)[x] = Transfer(to, from, pairs)[x]
      BY <3>4, SameMoves
    <3> QED
      BY <3>3, <3>5
  <2> QED
    BY <2>2, <2>m, <2>7, <2>9, <2>10
<1>6. \A p \in Range(swap_in_map) : p[1] # c /\ p[2] # b
  <2>1. ~Clash'
    BY <1>3 DEF Good, NoClash
  <2>2. <<b, c>> \in Range(swap_out_map')
    BY <1>b, RangeAppend
  <2> QED
    BY <1>2, <2>1, <2>2 DEF Clash
<1>7. FinalKv = Transfer(CopiedKv, FinalCpu, swap_in_map)
  BY <1>3 DEF FinalKv
<1>8. FinalKv' = Transfer(CopiedKv, FinalCpu', swap_in_map)
  BY <1>2, <1>3, <1>4 DEF FinalKv, Transfer
<1>9. FinalKv' = FinalKv
  <2>1. \A p \in Range(swap_in_map) : FinalCpu'[p[1]] = FinalCpu[p[1]]
    <3>1. \A p \in Range(swap_in_map) : p[1] \in CpuBlockId
      <4>1. swap_in_map \in Seq(CpuBlockId \X BlockId)
        BY ListTypes
      <4> QED
        BY <4>1 DEF Range
    <3>2. FinalCpu \in [CpuBlockId -> Content]
      BY FinalTypes
    <3> QED
      BY <1>5, <1>6, <3>1, <3>2
  <2>2. Transfer(CopiedKv, FinalCpu', swap_in_map) = Transfer(CopiedKv, FinalCpu, swap_in_map)
    BY <2>1, TransferSources
  <2> QED
    BY <1>7, <1>8, <2>2
<1>10. FinalKv[b] = CopiedKv[b]
  <2>1. CopiedKv \in [BlockId -> Content]
    BY FinalTypes
  <2>2. Transfer(CopiedKv, FinalCpu, swap_in_map)[b] = CopiedKv[b]
    BY <1>6, <2>1, NotMoved
  <2> QED
    BY <1>7, <2>2
<1> QED
  BY <1>5, <1>9, <1>10

(***************************************************************************)
(* copy_on_write announces a copy into a free block: no other move reads   *)
(* it, and its source is nobody's target.                                  *)
(***************************************************************************)
LEMMA FinalDecode ==
  ASSUME BaseInv, StageInv, TargetsInv, TargetsInv', Good', EngineDecode,
         NEW old \in BlockId, NEW new \in BlockId,
         ref_count[new] = 0, ref_count[old] > 1,
         cow_pairs' = Append(cow_pairs, <<old, new>>)
  PROVE  FinalKv' = [FinalKv EXCEPT ![new] = FinalKv[old]] /\ FinalCpu' = FinalCpu
<1>b. /\ cow_pairs \in Seq(BlockId \X BlockId) /\ <<old, new>> \in BlockId \X BlockId
      /\ TypeOK
  BY ListTypes
<1>1. phase = "decode" /\ phase' = phase
  BY MovePlace DEF BaseInv
<1>2. /\ kv_cache' = kv_cache /\ cpu_kv_cache' = cpu_kv_cache
      /\ swap_in_map' = swap_in_map /\ swap_out_map' = swap_out_map /\ stage' = stage
  BY DEF EngineDecode, kvVars
<1>3. Pending /\ Pending' /\ stage = "copy" /\ stage' = "copy"
  BY <1>1, <1>2 DEF Pending, StageInv
<1>t. /\ CopiedKv \in [BlockId -> Content] /\ FinalKv \in [BlockId -> Content]
      /\ cpu_kv_cache \in [CpuBlockId -> Content]
  BY FinalTypes
<1>4. CopiedKv' = [CopiedKv EXCEPT ![new] = CopiedKv[old]]
  <2>1. CopiesOf(kv_cache, Append(cow_pairs, <<old, new>>))
          = CopyOne(CopiesOf(kv_cache, cow_pairs), <<old, new>>)
    BY <1>b, CopiesAppend
  <2>2. CopiedKv' = CopiesOf(kv_cache, Append(cow_pairs, <<old, new>>))
    BY <1>2, <1>3 DEF CopiedKv
  <2>3. CopiedKv = CopiesOf(kv_cache, cow_pairs)
    BY <1>3 DEF CopiedKv
  <2> QED
    BY <2>1, <2>2, <2>3 DEF CopyOne
<1>5. \A p \in Range(swap_out_map) : p[1] # new
  <2>1. ~Clash'
    BY <1>3 DEF Good, NoClash
  <2>2. <<old, new>> \in Range(cow_pairs')
    BY <1>b, RangeAppend
  <2> QED
    BY <1>2, <2>1, <2>2 DEF Clash
<1>6. FinalCpu' = FinalCpu
  <2>1. FinalCpu' = Transfer(cpu_kv_cache, CopiedKv', swap_out_map)
    BY <1>2, <1>3 DEF FinalCpu, Transfer
  <2>2. FinalCpu = Transfer(cpu_kv_cache, CopiedKv, swap_out_map)
    BY <1>3 DEF FinalCpu
  <2>3. \A p \in Range(swap_out_map) : CopiedKv'[p[1]] = CopiedKv[p[1]]
    <3>1. \A p \in Range(swap_out_map) : p[1] \in BlockId
      <4>1. swap_out_map \in Seq(BlockId \X CpuBlockId)
        BY ListTypes
      <4> QED
        BY <4>1 DEF Range
    <3> QED
      BY <1>t, <1>4, <1>5, <3>1
  <2>4. Transfer(cpu_kv_cache, CopiedKv', swap_out_map)
          = Transfer(cpu_kv_cache, CopiedKv, swap_out_map)
    BY <2>3, TransferSources
  <2> QED
    BY <2>1, <2>2, <2>4
<1>7. \A p \in Range(swap_in_map) : p[2] # new /\ p[2] # old
  BY <1>1 DEF TargetsInv
<1>8. FinalKv = Transfer(CopiedKv, FinalCpu, swap_in_map)
  BY <1>3 DEF FinalKv
<1>9. FinalKv' = Transfer(CopiedKv', FinalCpu, swap_in_map)
  BY <1>2, <1>3, <1>6 DEF FinalKv, Transfer
<1>10. FinalKv[old] = CopiedKv[old]
  <2>1. Transfer(CopiedKv, FinalCpu, swap_in_map)[old] = CopiedKv[old]
    BY <1>7, <1>t, NotMoved
  <2> QED
    BY <1>8, <2>1
<1>11. FinalKv' = [FinalKv EXCEPT ![new] = CopiedKv[old]]
  <2>1. DOMAIN CopiedKv' = BlockId /\ DOMAIN CopiedKv = BlockId
    BY <1>4, <1>t
  <2>2. \A x \in BlockId : CopiedKv'[x] = IF x = new THEN CopiedKv[old] ELSE CopiedKv[x]
    BY <1>4, <1>t
  <2> HIDE DEF Content
  <2>3. FinalKv' = [x \in BlockId |->
                      IF \E p \in Range(swap_in_map) : p[2] = x
                      THEN FinalCpu[(CHOOSE p \in Range(swap_in_map) : p[2] = x)[1]]
                      ELSE CopiedKv'[x]]
    BY <1>9, <2>1 DEF Transfer
  <2>4. FinalKv = [x \in BlockId |->
                      IF \E p \in Range(swap_in_map) : p[2] = x
                      THEN FinalCpu[(CHOOSE p \in Range(swap_in_map) : p[2] = x)[1]]
                      ELSE CopiedKv[x]]
    BY <1>8, <2>1 DEF Transfer
  <2>5. \A x \in BlockId : FinalKv'[x] = IF x = new THEN CopiedKv[old] ELSE FinalKv[x]
    BY <1>7, <2>2, <2>3, <2>4
  <2>6. DOMAIN FinalKv' = BlockId /\ DOMAIN FinalKv = BlockId
    BY <2>3, <2>4
  <2>7. FinalKv' = [x \in BlockId |-> FinalKv'[x]]
    BY <2>3
  <2>8. [FinalKv EXCEPT ![new] = CopiedKv[old]]
          = [x \in BlockId |-> IF x = new THEN CopiedKv[old] ELSE FinalKv[x]]
    BY <2>6
  <2> QED
    BY <2>5, <2>7, <2>8
<1> QED
  BY <1>6, <1>10, <1>11

-----------------------------------------------------------------------------
(* Steps that change neither the data nor what it is for.                  *)

\* An entry of a page table of the CPU side.
LEMMA HeldCpuEntry ==
  ASSUME TypeOK, NEW u \in Request, NEW i \in HeldCpu(u)
  PROVE  i \in Nat \ {0} /\ i <= Len(cpu_block_table[u]) /\ cpu_block_table[u][i] \in CpuBlockId
<1>1. cpu_block_table[u] \in Seq(CpuBlockId) /\ i \in DOMAIN cpu_block_table[u]
  BY DEF TypeOK, HeldCpu
<1>2. DOMAIN cpu_block_table[u] = 1 .. Len(cpu_block_table[u]) /\ Len(cpu_block_table[u]) \in Nat
  BY <1>1, LenProperties
<1> QED
  BY <1>1, <1>2, ElementOfSeq

\* A step that moves no data.
LEMMA ContentFrame ==
  ASSUME ContentInv, FinalKv' = FinalKv, FinalCpu' = FinalCpu, block_hash' = block_hash,
         \A s \in Request : \A i \in Held(s)' :
           /\ i \in Held(s) /\ block_table'[s][i] = block_table[s][i]
           /\ \A j \in Slots : Pos(i, j) <= Have(s)' =>
                Pos(i, j) <= Have(s) /\ Prefix(s, Pos(i, j))' = Prefix(s, Pos(i, j)),
         \A s \in Request : \A i \in HeldCpu(s)' :
           /\ i \in HeldCpu(s) /\ cpu_block_table'[s][i] = cpu_block_table[s][i]
           /\ token_ids'[s] = token_ids[s],
         \A b, j : DuePrefill(b, j) => DuePrefill(b, j)',
         \A b, j : DueDecode(b, j) => DueDecode(b, j)'
  PROVE  ContentInv'
<1>1. HeldRight'
  <2>1. ASSUME NEW s \in Request, NEW i \in Held(s)', NEW j \in Slots,
               Pos(i, j) <= Have(s)'
        PROVE  (\/ FinalKv[block_table[s][i]][j] = Prefix(s, Pos(i, j))
                \/ DuePrefill(block_table[s][i], j))'
    <3>1. /\ i \in Held(s) /\ block_table'[s][i] = block_table[s][i]
          /\ Pos(i, j) <= Have(s) /\ Prefix(s, Pos(i, j))' = Prefix(s, Pos(i, j))
      BY <2>1
    <3>2. PICK b : b = block_table[s][i]
      OBVIOUS
    <3>3. FinalKv[b][j] = Prefix(s, Pos(i, j)) \/ DuePrefill(b, j)
      BY <3>1, <3>2 DEF ContentInv, HeldRight
    <3>4. FinalKv'[b][j] = Prefix(s, Pos(i, j))' \/ DuePrefill(b, j)'
      BY <3>1, <3>3
    <3>5. b = block_table[s][i]'
      BY <3>1, <3>2
    <3> QED
      BY <3>4, <3>5 DEF Pos
  <2> QED
    BY <2>1 DEF HeldRight, Pos
<1>2. LabelsRight'
  BY DEF ContentInv, LabelsRight, LabelPos
<1>3. CpuRight'
  <2> SUFFICES ASSUME NEW s \in Request, NEW i \in HeldCpu(s)', NEW j \in Slots,
                      Pos(i, j) <= SeqLen(s)' - 1
               PROVE  FinalCpu'[cpu_block_table'[s][i]][j] = Prefix(s, Pos(i, j))'
    BY DEF CpuRight, Pos
  <2>1. /\ i \in HeldCpu(s) /\ cpu_block_table'[s][i] = cpu_block_table[s][i]
        /\ token_ids'[s] = token_ids[s]
    OBVIOUS
  <2>2. FinalCpu[cpu_block_table[s][i]][j] = Prefix(s, Pos(i, j))
    BY <2>1 DEF ContentInv, CpuRight, SeqLen
  <2> QED
    BY <2>1, <2>2 DEF Prefix, Pos
<1> QED
  BY <1>1, <1>2, <1>3 DEF ContentInv

\* Nor does it change what is due, or how many tokens are stored for a sequence that
\* keeps its blocks.
LEMMA ContentQuiet ==
  ASSUME TypeOK, ContentInv, FinalKv' = FinalKv, FinalCpu' = FinalCpu,
         UNCHANGED <<token_ids, num_prompt_tokens, placed, block_table, cpu_block_table,
                     block_hash, num_cached_tokens, num_computed_tokens>>,
         \A s \in Request : Held(s)' = Held(s) /\ HeldCpu(s)' \subseteq HeldCpu(s),
         \A s \in Request : Allocating(s)' = Allocating(s),
         ~EnableChunkedPrefill => \A s \in Request : Prefilling(s)' = Prefilling(s),
         \A s \in Request : Decoding(s)' = Decoding(s),
         \A s \in Request : Uncounted(s)' = Uncounted(s),
         \A s \in Request :
           \/ status'[s] = status[s]
           \/ status'[s] \notin {"running", "swapped"} /\ ~Allocating(s)
  PROVE  ContentInv'
<1>1. ASSUME NEW s \in Request, NEW i \in Held(s)', NEW j \in Slots, Pos(i, j) <= Have(s)'
      PROVE  Pos(i, j) <= Have(s)
  <2>1. i \in Nat \ {0}
    <3>1. i \in Held(s)
      BY <1>1
    <3> QED
      BY <3>1, HeldEntry
  <2>2. Pos(i, j) \in Nat \ {0}
    BY <2>1, PosType
  <2>3. CASE status'[s] = status[s]
    <3>1. Have(s)' = Have(s)
      BY <2>3 DEF Have, SeqLen, is_prefill_finished
    <3> QED
      BY <1>1, <3>1
  <2>4. CASE status'[s] \notin {"running", "swapped"} /\ ~Allocating(s)
    <3>1. Have(s)' = 0
      BY <2>4 DEF Have
    <3> QED
      BY <1>1, <2>2, <3>1
  <2> QED
    BY <2>3, <2>4
<1>2. \A s, p : Prefix(s, p)' = Prefix(s, p)
  BY DEF Prefix
<1>3. ASSUME NEW s \in Request, NEW i \in Held(s)'
      PROVE  /\ i \in Held(s) /\ block_table'[s][i] = block_table[s][i]
             /\ \A j \in Slots : Pos(i, j) <= Have(s)' =>
                  Pos(i, j) <= Have(s) /\ Prefix(s, Pos(i, j))' = Prefix(s, Pos(i, j))
  BY <1>1, <1>2, <1>3 DEF Prefix, Pos
<1>4. \A s \in Request : \A i \in HeldCpu(s)' :
           /\ i \in HeldCpu(s) /\ cpu_block_table'[s][i] = cpu_block_table[s][i]
           /\ token_ids'[s] = token_ids[s]
  OBVIOUS
<1>5. \A b, j : DuePrefill(b, j) => DuePrefill(b, j)'
  BY DEF DuePrefill, Pos, SeqLen
<1>6. \A b, j : DueDecode(b, j) => DueDecode(b, j)'
  BY DEF DueDecode, Pos, SeqLen
<1> QED
  BY <1>3, <1>4, <1>5, <1>6, ContentFrame

\* A step that moves on in the method, without touching a sequence or a block.
LEMMA PhaseContent ==
  ASSUME TypeOK, ContentInv, FinalKv' = FinalKv, FinalCpu' = FinalCpu,
         UNCHANGED vars, num_computed_tokens' = num_computed_tokens,
         ~EnableChunkedPrefill => \A s \in Request : Prefilling(s)' = Prefilling(s),
         \A s \in Request : Decoding(s)' = Decoding(s),
         \A s \in Request : Uncounted(s)' = Uncounted(s)
  PROVE  ContentInv'
<1>1. /\ UNCHANGED <<token_ids, num_prompt_tokens, placed, block_table, cpu_block_table,
                     block_hash, num_cached_tokens, num_computed_tokens, status, op, cur>>
  BY DEF vars, seqVars, cacheVars, callVars
<1>2. \A s \in Request : Held(s)' = Held(s) /\ HeldCpu(s)' = HeldCpu(s)
  BY <1>1 DEF Held, HeldCpu
<1>3. \A s \in Request : Allocating(s)' = Allocating(s)
  BY <1>1 DEF Allocating
<1> QED
  BY <1>1, <1>2, <1>3, ContentQuiet

\* The borders of the phases of schedule, run and postprocess.
LEMMA PhaseSteps ==
  ASSUME BaseInv, StageInv, ContentInv, UNCHANGED engineVars, phase' \notin Failures,
         \/ ResumePrefill \/ ResumeEnd \/ AdmitEnd \/ SwapInEnd \/ PickDecode \/ DecodeEnd
         \/ NothingScheduled \/ RecordEnd \/ PostSkip \/ PostContinue \/ PostEnd
  PROVE  ContentInv'
<1>b. TypeOK /\ SeqPlace /\ QueueType
  BY ListTypes DEF ClientInv
<1> DEFINE Quiet == /\ UNCHANGED vars /\ num_computed_tokens' = num_computed_tokens
                    /\ Pending' = Pending
                    /\ ~EnableChunkedPrefill => \A s \in Request : Prefilling(s)' = Prefilling(s)
                    /\ \A s \in Request : Decoding(s)' = Decoding(s)
                    /\ \A s \in Request : Uncounted(s)' = Uncounted(s)
<1>1. ASSUME ResumePrefill \/ ResumeEnd PROVE Quiet
  <2>1. /\ UNCHANGED vars /\ num_computed_tokens' = num_computed_tokens
        /\ phase = "resume" /\ phase' \in {"resume", "admit"} /\ EnableChunkedPrefill
    BY <1>1, <1>b DEF ResumePrefill, ResumeEnd, Goto, SeqPlace
  <2> QED
    BY <2>1 DEF Pending, Decoding, Uncounted
<1>2. ASSUME AdmitEnd PROVE Quiet
  <2>1. /\ UNCHANGED vars /\ num_computed_tokens' = num_computed_tokens
        /\ phase = "admit" /\ op = "idle" /\ op' = "idle" /\ scheduled_seqs' = scheduled_seqs
        /\ \/ phase' = "run" /\ is_prefill' = TRUE
           \/ phase' = "swap_in" /\ scheduled_seqs = <<>>
    BY <1>2 DEF AdmitEnd, Goto, Idle, vars, callVars
  <2>2. scheduled_seqs = <<>> => Batch = {}
    BY DEF Batch, Range
  <2>3. Batch' = Batch
    BY <2>1 DEF Batch
  <2>4. Pending' = Pending
    BY <2>1 DEF Pending
  <2>5. \A s \in Request : Prefilling(s)' = Prefilling(s)
    BY <2>1, <2>2, <2>3 DEF Prefilling, Allocating
  <2>6. \A s \in Request : Decoding(s)' = Decoding(s)
    BY <2>1, <2>2, <2>3 DEF Decoding
  <2>7. \A s \in Request : Uncounted(s)' = Uncounted(s)
    BY <2>1 DEF Uncounted
  <2> QED
    BY <2>1, <2>4, <2>5, <2>6, <2>7
<1>3. ASSUME SwapInEnd \/ PostEnd PROVE Quiet
  <2>1. /\ UNCHANGED vars /\ num_computed_tokens' = num_computed_tokens
        /\ op = "idle" /\ op' = "idle"
        /\ \/ phase = "swap_in" /\ phase' = "decode" /\ scheduled_seqs' = scheduled_seqs
              /\ scheduled_seqs = <<>>
           \/ phase = "postprocess" /\ phase' = "idle"
    BY <1>3, <1>b DEF SwapInEnd, PostEnd, Postprocessing, Goto, Idle, vars, callVars, SeqPlace, batchVars
  <2>2. scheduled_seqs = <<>> => Batch = {}
    BY DEF Batch, Range
  <2>3. scheduled_seqs' = scheduled_seqs => Batch' = Batch
    BY <2>1 DEF Batch
  <2>4. Pending' = Pending
    BY <2>1 DEF Pending
  <2>5. \A s \in Request : Prefilling(s)' = Prefilling(s)
    BY <2>1, <2>2, <2>3 DEF Prefilling, Allocating
  <2>6. \A s \in Request : Decoding(s)' = Decoding(s)
    BY <2>1, <2>2, <2>3 DEF Decoding
  <2>7. \A s \in Request : Uncounted(s)' = Uncounted(s)
    BY <2>1 DEF Uncounted
  <2> QED
    BY <2>1, <2>4, <2>5, <2>6, <2>7
<1>4. ASSUME PickDecode \/ PostSkip \/ PostContinue PROVE Quiet
  <2>1. /\ UNCHANGED vars /\ num_computed_tokens' = num_computed_tokens
        /\ phase \in {"decode", "postprocess"} /\ phase' = phase
        /\ UNCHANGED <<scheduled_seqs, is_prefill, op, cur>>
    BY <1>4 DEF PickDecode, PostSkip, PostContinue, Postprocessing, vars, callVars, batchVars
  <2>3. Batch' = Batch
    BY <2>1 DEF Batch
  <2>4. Pending' = Pending
    BY <2>1 DEF Pending
  <2>5. \A s \in Request : Prefilling(s)' = Prefilling(s)
    BY <2>1, <2>3 DEF Prefilling, Allocating
  <2>6. \A s \in Request : Decoding(s)' = Decoding(s)
    BY <2>1, <2>3 DEF Decoding
  <2>7. \A s \in Request : Uncounted(s)' = Uncounted(s)
    BY <2>1 DEF Uncounted
  <2> QED
    BY <2>1, <2>4, <2>5, <2>6, <2>7
<1>5. ASSUME DecodeEnd PROVE Quiet
  <2>1. /\ UNCHANGED vars /\ num_computed_tokens' = num_computed_tokens
        /\ phase = "decode" /\ phase' = "run" /\ is_prefill' = FALSE
        /\ UNCHANGED <<scheduled_seqs, op, cur>> /\ op = "idle"
    BY <1>5 DEF DecodeEnd, DecodeLoopDone, Goto, Idle, vars, callVars
  <2>3. Batch' = Batch
    BY <2>1 DEF Batch
  <2>4. Pending' = Pending
    BY <2>1 DEF Pending
  <2>5. \A s \in Request : Prefilling(s)' = Prefilling(s)
    BY <2>1, <2>3 DEF Prefilling, Allocating
  <2>6. \A s \in Request : Decoding(s)' = Decoding(s)
    BY <2>1, <2>3 DEF Decoding
  <2>7. \A s \in Request : Uncounted(s)' = Uncounted(s)
    BY <2>1 DEF Uncounted
  <2> QED
    BY <2>1, <2>4, <2>5, <2>6, <2>7
<1>6. ASSUME RecordEnd PROVE Quiet
  <2>1. /\ UNCHANGED vars /\ num_computed_tokens' = num_computed_tokens
        /\ phase = "record" /\ phase' = "postprocess" /\ EnableChunkedPrefill /\ todo = <<>>
    BY <1>6, <1>b DEF RecordEnd, SeqPlace
  <2>2. Range(todo) = {}
    BY <2>1 DEF Range
  <2>4. Pending' = Pending
    BY <2>1 DEF Pending
  <2>6. \A s \in Request : Decoding(s)' = Decoding(s)
    BY <2>1 DEF Decoding
  <2>7. \A s \in Request : Uncounted(s)' = Uncounted(s)
    BY <2>1, <2>2 DEF Uncounted
  <2> QED
    BY <2>1, <2>4, <2>6, <2>7
<1>7. ~NothingScheduled
  BY DEF NothingScheduled, Failures
<1>8. Quiet
  BY <1>1, <1>2, <1>3, <1>4, <1>5, <1>6, <1>7
<1>9. FinalKv' = FinalKv /\ FinalCpu' = FinalCpu
  BY <1>8, FinalSame DEF engineVars
<1> QED
  BY <1>b, <1>8, <1>9, PhaseContent

\* The steps that change nothing the scheduler knows, and the start of a step.
LEMMA CallContent ==
  ASSUME BaseInv, StageInv, ContentInv,
         \/ UNCHANGED systemVars \/ (ClientStep /\ AllDone) \/ EngineSchedule
         \/ CopyKvBlocks \/ SwapBlocksOut \/ SwapBlocksIn
  PROVE  ContentInv'
<1>b. TypeOK /\ PlaceInv
  BY ListTypes
<1>1. CASE EngineSchedule
  <2>1. FinalKv' = FinalKv /\ FinalCpu' = FinalCpu
    BY <1>1, FinalSchedule
  <2>2. /\ UNCHANGED vars /\ num_computed_tokens' = num_computed_tokens
        /\ phase = "idle" /\ phase' \in {"resume", "admit"} /\ op = "idle" /\ op' = "idle"
        /\ scheduled_seqs' = <<>>
    BY <1>1, <1>b, MovePlace DEF EngineSchedule, Schedule, vars, callVars
  <2>3. Batch' = {}
    BY <2>2 DEF Batch, Range
  <2>5. \A s \in Request : Prefilling(s)' = Prefilling(s)
    BY <2>2, <2>3 DEF Prefilling, Allocating
  <2>6. \A s \in Request : Decoding(s)' = Decoding(s)
    BY <2>2, <2>3 DEF Decoding
  <2>7. \A s \in Request : Uncounted(s)' = Uncounted(s)
    BY <2>2 DEF Uncounted
  <2> QED
    BY <1>b, <2>1, <2>2, <2>5, <2>6, <2>7, PhaseContent
<1>2. CASE UNCHANGED allVars /\ FinalKv' = FinalKv /\ FinalCpu' = FinalCpu
  <2>1. /\ UNCHANGED <<vars, num_computed_tokens, phase, scheduled_seqs, is_prefill, op, cur, todo>>
        /\ num_prompt_tokens' = num_prompt_tokens
    BY <1>2 DEF allVars, schedulerVars, batchVars, vars, callVars, seqVars
  <2>5. \A s \in Request : Prefilling(s)' = Prefilling(s)
    BY <2>1 DEF Prefilling, Allocating, Batch
  <2>6. \A s \in Request : Decoding(s)' = Decoding(s)
    BY <2>1 DEF Decoding, Batch
  <2>7. \A s \in Request : Uncounted(s)' = Uncounted(s)
    BY <2>1 DEF Uncounted, RunnerChunk
  <2> QED
    BY <1>b, <1>2, <2>1, <2>5, <2>6, <2>7, PhaseContent
<1>3. CASE CopyKvBlocks \/ SwapBlocksOut \/ SwapBlocksIn
  <2>1. FinalKv' = FinalKv /\ FinalCpu' = FinalCpu
    BY <1>3, FinalCalls
  <2> QED
    BY <1>2, <1>3, <2>1 DEF CopyKvBlocks, SwapBlocksOut, SwapBlocksIn
<1>4. CASE UNCHANGED systemVars \/ (ClientStep /\ AllDone)
  <2>1. UNCHANGED allVars /\ UNCHANGED engineVars
    BY <1>4 DEF systemVars, ClientStep, AllDone
  <2>2. Pending' = Pending
    BY <2>1 DEF allVars, schedulerVars, Pending
  <2>3. FinalKv' = FinalKv /\ FinalCpu' = FinalCpu
    BY <2>1, <2>2, FinalSame DEF engineVars
  <2> QED
    BY <1>2, <2>1, <2>3
<1> QED
  BY <1>1, <1>3, <1>4

\* A call of the block manager begins.
LEMMA CallsBegin ==
  ASSUME BaseInv, ContentInv, UNCHANGED engineVars, SwapIn \/ Evict \/ PostFinish
  PROVE  ContentInv'
<1>b. TypeOK /\ TablesFollowStatus
  BY ListTypes
<1>1. /\ UNCHANGED <<token_ids, num_prompt_tokens, placed, block_table, cpu_block_table,
                     block_hash, num_cached_tokens, num_computed_tokens, phase,
                     scheduled_seqs, is_prefill, todo>>
      /\ op = "idle" /\ cur = NoRequest
  BY <1>b DEF SwapIn, Evict, PostFinish, BeginSwapIn, Preempt, BeginFinish, Idle, TypeOK,
              schedulerVars, queueVars, batchVars, cacheVars, seqVars, BatchInv
<1>2. \E s \in Request :
        /\ \/ op' = "swap_in" /\ status' = status
           \/ op' = "swap_out" /\ status' = status /\ status[s] = "running"
           \/ op' = "deallocate" /\ \E st \in {"waiting", "finished"} :
                                      status' = [status EXCEPT ![s] = st]
        /\ cur' = s
  <2>1. ASSUME SwapIn PROVE op' = "swap_in" /\ status' = status /\ cur' \in Request
    <3>1. Head(swapped) \in Request
      <4>1. swapped \in Seq(Request) /\ swapped # <<>>
        BY <2>1, ListTypes DEF QueueType, SwapIn
      <4> QED
        BY <4>1, EndsType
    <3> QED
      BY <2>1, <3>1 DEF SwapIn, BeginSwapIn, Call, seqVars
  <2>2. ASSUME NEW s \in Request, Preempt(s)
        PROVE  /\ cur' = s
               /\ \/ op' = "swap_out" /\ status' = status /\ status[s] = "running"
                  \/ op' = "deallocate" /\ status' = [status EXCEPT ![s] = "waiting"]
    BY <2>2 DEF Preempt, Call
  <2>3. ASSUME NEW s \in Request, BeginFinish(s)
        PROVE  cur' = s /\ op' = "deallocate" /\ status' = [status EXCEPT ![s] = "finished"]
    BY <2>3 DEF BeginFinish, Call
  <2>4. ASSUME Evict PROVE \E s \in Request : Preempt(s)
    <3>1. running # <<>> => Last(running) \in Request
      BY ListTypes, EndsType DEF QueueType
    <3>2. seq # NoRequest => seq \in Request
      BY ListTypes DEF QueueType
    <3> QED
      BY <2>4, <3>1, <3>2 DEF Evict, Deciding
  <2>5. ASSUME PostFinish PROVE \E s \in Request : BeginFinish(s)
    <3>2. seq # NoRequest => seq \in Request
      BY ListTypes DEF QueueType
    <3> QED
      BY <2>5, <3>2 DEF PostFinish
  <2>6. CASE SwapIn
    BY <2>1, <2>6
  <2>7. CASE Evict
    BY <2>2, <2>4, <2>7
  <2>8. CASE PostFinish
    BY <2>3, <2>5, <2>8
  <2> QED
    BY <2>6, <2>7, <2>8
<1>3. PICK s \in Request :
        /\ \/ op' = "swap_in" /\ status' = status
           \/ op' = "swap_out" /\ status' = status /\ status[s] = "running"
           \/ op' = "deallocate" /\ \E st \in {"waiting", "finished"} :
                                      status' = [status EXCEPT ![s] = st]
        /\ cur' = s
  BY <1>2
<1>4. op' = "swap_out" => cpu_block_table[s] = <<>>
  <2>1. cur # s
    BY <1>1, BlockManagerAssumption
  <2> QED
    BY <1>3, <1>b, <2>1 DEF TablesFollowStatus
<1>5. ASSUME NEW u \in Request PROVE Held(u)' = Held(u)
  <2>1. Held(u) = DOMAIN block_table[u]
    BY <1>1 DEF Held
  <2>2. CASE op' = "swap_out" /\ u = s
    <3>1. Len(cpu_block_table[s]) = 0
      BY <1>4, <2>2
    <3>2. block_table[s] \in Seq(BlockId)
      BY <1>b DEF TypeOK
    <3>3. \A i \in DOMAIN block_table[s] : i > 0
      BY <3>2, LenProperties
    <3> QED
      BY <1>1, <2>1, <2>2, <3>1, <3>3 DEF Held
  <2>3. CASE ~(op' = "swap_out" /\ u = s)
    BY <1>1, <1>3, <2>1, <2>3 DEF Held
  <2> QED
    BY <2>2, <2>3
<1>6. \A u \in Request : HeldCpu(u)' \subseteq HeldCpu(u)
  BY <1>1 DEF HeldCpu
<1>7. \A u \in Request : Allocating(u)' = Allocating(u) /\ ~Allocating(u)
  BY <1>1, <1>3 DEF Allocating
<1>8. Batch' = Batch
  BY <1>1 DEF Batch
<1>9. \A u \in Request : Prefilling(u)' = Prefilling(u) /\ Decoding(u)' = Decoding(u)
  BY <1>1, <1>7, <1>8 DEF Prefilling, Decoding
<1>10. \A u \in Request : Uncounted(u)' = Uncounted(u)
  BY <1>1 DEF Uncounted, RunnerChunk
<1>11. ASSUME NEW u \in Request
       PROVE  \/ status'[u] = status[u]
              \/ status'[u] \notin {"running", "swapped"} /\ ~Allocating(u)
  <2>1. status \in [Request -> {"absent", "waiting", "running", "swapped", "finished"}]
    BY <1>b DEF TypeOK
  <2> QED
    BY <1>3, <1>7, <2>1
<1>12. FinalKv' = FinalKv /\ FinalCpu' = FinalCpu
  <2>1. Pending' = Pending
    BY <1>1 DEF Pending
  <2> QED
    BY <2>1, FinalSame DEF engineVars
<1>13. \A u \in Request : Held(u)' = Held(u) /\ HeldCpu(u)' \subseteq HeldCpu(u)
  BY <1>5, <1>6
<1> QED
  <2>1. \A u \in Request : Allocating(u)' = Allocating(u)
    BY <1>7
  <2>2. \A u \in Request : Prefilling(u)' = Prefilling(u)
    BY <1>9
  <2>3. \A u \in Request : Decoding(u)' = Decoding(u)
    BY <1>9
  <2>4. \A u \in Request :
           \/ status'[u] = status[u]
           \/ status'[u] \notin {"running", "swapped"} /\ ~Allocating(u)
    BY <1>11
  <2>5. UNCHANGED <<token_ids, num_prompt_tokens, placed, block_table, cpu_block_table,
                     block_hash, num_cached_tokens, num_computed_tokens>>
    BY <1>1
  <2> QED
    BY <1>b, <1>10, <1>12, <1>13, <2>1, <2>2, <2>3, <2>4, <2>5, ContentQuiet

-----------------------------------------------------------------------------
(* Sequences that arrive, get tokens and leave.                            *)

\* Between methods, tables are where the status says.
LEMMA NoTables ==
  ASSUME BaseInv, op = "idle", NEW s \in Request
  PROVE  /\ status[s] \in {"absent", "waiting"} => Held(s) = {} /\ HeldCpu(s) = {}
         /\ status[s] = "running" => HeldCpu(s) = {}
<1>b. TypeOK /\ TablesFollowStatus
  BY ListTypes
<1>1. cur # s
  BY <1>b, BlockManagerAssumption DEF TypeOK
<1>2. /\ status[s] \in {"absent", "waiting"} => block_table[s] = <<>> /\ cpu_block_table[s] = <<>>
      /\ status[s] = "running" => cpu_block_table[s] = <<>>
  BY <1>b, <1>1 DEF TablesFollowStatus
<1>3. DOMAIN <<>> = {}
  OBVIOUS
<1> QED
  BY <1>2, <1>3 DEF Held, HeldCpu

\* A sequence is admitted: it has no blocks yet.
LEMMA AdmitContent ==
  ASSUME BaseInv, ContentInv, UNCHANGED engineVars, Admit
  PROVE  ContentInv'
<1>b. TypeOK /\ QueueType
  BY ListTypes
<1>1. /\ UNCHANGED <<token_ids, num_prompt_tokens, placed, block_table, cpu_block_table, status,
                     block_hash, num_cached_tokens, num_computed_tokens, phase,
                     scheduled_seqs, is_prefill, todo>>
      /\ op = "idle" /\ phase = "admit" /\ op' = "allocate"
  BY DEF Admit, BeginAllocate, Idle, Call, seqVars, cacheVars
<1>2. PICK s \in Request : cur' = s /\ status[s] = "waiting"
  <2>1. Head(waiting) \in Request
    BY <1>b, EndsType DEF QueueType, Admit, Admissible
  <2> QED
    BY <2>1 DEF Admit, BeginAllocate, Call
<1>3. Held(s) = {}
  BY <1>1, <1>2, NoTables
<1>4. \A u \in Request : Held(u)' = Held(u) /\ HeldCpu(u)' = HeldCpu(u)
  BY <1>1 DEF Held, HeldCpu
<1>5. \A u \in Request : /\ Prefilling(u) => Prefilling(u)'
                         /\ u # s => Prefilling(u)' = Prefilling(u)
                         /\ u # s => Allocating(u)' = Allocating(u)
  BY <1>1, <1>2 DEF Prefilling, Allocating, Batch
<1>6. \A u \in Request : Decoding(u)' = Decoding(u)
  BY <1>1 DEF Decoding, Batch
<1>7. \A u \in Request : Uncounted(u)' = Uncounted(u)
  BY <1>1 DEF Uncounted, RunnerChunk
<1>8. ASSUME NEW u \in Request, u # s PROVE Have(u)' = Have(u)
  BY <1>1, <1>5, <1>6, <1>7, <1>8 DEF Have, SeqLen, is_prefill_finished
<1>9. ASSUME NEW u \in Request, NEW i \in Held(u)'
      PROVE  /\ i \in Held(u) /\ block_table'[u][i] = block_table[u][i]
             /\ \A j \in Slots : Pos(i, j) <= Have(u)' =>
                  Pos(i, j) <= Have(u) /\ Prefix(u, Pos(i, j))' = Prefix(u, Pos(i, j))
  <2>1. u # s
    BY <1>3, <1>4, <1>9
  <2> QED
    BY <1>1, <1>4, <1>8, <1>9, <2>1 DEF Prefix, Pos
<1>10. \A u \in Request : \A i \in HeldCpu(u)' :
           /\ i \in HeldCpu(u) /\ cpu_block_table'[u][i] = cpu_block_table[u][i]
           /\ token_ids'[u] = token_ids[u]
  BY <1>1, <1>4
<1>11. \A b, j : DuePrefill(b, j) => DuePrefill(b, j)'
  BY <1>1, <1>4, <1>5 DEF DuePrefill, Pos, SeqLen
<1>12. \A b, j : DueDecode(b, j) => DueDecode(b, j)'
  BY <1>1, <1>4, <1>6 DEF DueDecode, Pos, SeqLen
<1>13. FinalKv' = FinalKv /\ FinalCpu' = FinalCpu
  <2>1. Pending' = Pending
    BY <1>1 DEF Pending
  <2> QED
    BY <2>1, FinalSame DEF engineVars
<1>14. block_hash' = block_hash
  BY <1>1
<1> QED
  BY <1>9, <1>10, <1>11, <1>12, <1>13, <1>14, ContentFrame

\* Nothing is due outside schedule and the run of the model.
LEMMA NothingDue ==
  ASSUME op # "allocate", phase \notin {"admit", "decode", "run"}
  PROVE  \A b, j : ~DuePrefill(b, j) /\ ~DueDecode(b, j)
BY DEF DuePrefill, DueDecode, Prefilling, Decoding, Allocating

\* A sequence is added: it has neither blocks nor tokens that count.
LEMMA AddContent ==
  ASSUME BaseInv, ContentInv, UNCHANGED engineVars, NEW s \in Request, Add(s)
  PROVE  ContentInv'
<1>b. TypeOK
  BY ListTypes
<1>1. /\ UNCHANGED <<placed, block_table, cpu_block_table,
                     block_hash, num_cached_tokens, num_computed_tokens, phase,
                     scheduled_seqs, is_prefill, todo, op, cur>>
      /\ op = "idle" /\ phase = "idle" /\ status[s] = "absent"
      /\ \A u \in Request : u # s => /\ token_ids'[u] = token_ids[u]
                                     /\ num_prompt_tokens'[u] = num_prompt_tokens[u]
                                     /\ status'[u] = status[u]
  <2>1. NewSequence(s)
    BY DEF Add
  <2>2. PICK p \in Prompts : /\ token_ids' = [token_ids EXCEPT ![s] = p]
                             /\ num_prompt_tokens' = [num_prompt_tokens EXCEPT ![s] = Len(p)]
    BY <2>1 DEF NewSequence
  <2>3. status' = [status EXCEPT ![s] = "waiting"]
    BY <2>1 DEF NewSequence
  <2>4. \A u \in Request : u # s => /\ token_ids'[u] = token_ids[u]
                                     /\ num_prompt_tokens'[u] = num_prompt_tokens[u]
                                     /\ status'[u] = status[u]
    BY <1>b, <2>2, <2>3 DEF TypeOK
  <2> QED
    BY <2>1, <2>4 DEF Add, NewSequence, BetweenSteps, Idle, cacheVars, batchVars, callVars
<1>2. Held(s) = {} /\ HeldCpu(s) = {}
  BY <1>1, NoTables
<1>4. \A u \in Request : Held(u)' = Held(u) /\ HeldCpu(u)' = HeldCpu(u)
  BY <1>1 DEF Held, HeldCpu
<1>8. ASSUME NEW u \in Request, u # s PROVE Have(u)' = Have(u)
  <2>1. Allocating(u)' = Allocating(u) /\ Prefilling(u)' = Prefilling(u)
    BY <1>1 DEF Prefilling, Allocating, Batch
  <2>2. Decoding(u)' = Decoding(u)
    BY <1>1 DEF Decoding, Batch
  <2>3. Uncounted(u)' = Uncounted(u)
    BY <1>1 DEF Uncounted
  <2> QED
    BY <1>1, <1>8, <2>1, <2>2, <2>3 DEF Have, SeqLen, is_prefill_finished
<1>9. ASSUME NEW u \in Request, NEW i \in Held(u)'
      PROVE  /\ i \in Held(u) /\ block_table'[u][i] = block_table[u][i]
             /\ \A j \in Slots : Pos(i, j) <= Have(u)' =>
                  Pos(i, j) <= Have(u) /\ Prefix(u, Pos(i, j))' = Prefix(u, Pos(i, j))
  <2>1. u # s
    BY <1>2, <1>4, <1>9
  <2> QED
    BY <1>1, <1>4, <1>8, <1>9, <2>1 DEF Prefix, Pos
<1>10. \A u \in Request : \A i \in HeldCpu(u)' :
           /\ i \in HeldCpu(u) /\ cpu_block_table'[u][i] = cpu_block_table[u][i]
           /\ token_ids'[u] = token_ids[u]
  BY <1>1, <1>2, <1>4
<1>11. \A b, j : ~DuePrefill(b, j) /\ ~DueDecode(b, j)
  BY <1>1, NothingDue
<1>12. \A b, j : DuePrefill(b, j) => DuePrefill(b, j)'
  BY <1>11
<1>13. \A b, j : DueDecode(b, j) => DueDecode(b, j)'
  BY <1>11
<1>14. FinalKv' = FinalKv /\ FinalCpu' = FinalCpu
  <2>1. Pending' = Pending
    BY <1>1 DEF Pending
  <2> QED
    BY <2>1, FinalSame DEF engineVars
<1>15. block_hash' = block_hash
  BY <1>1
<1> QED
  BY <1>9, <1>10, <1>12, <1>13, <1>14, <1>15, ContentFrame

\* Blocks that are given back.
LEMMA ReleaseContent ==
  ASSUME BaseInv, ContentInv, EngineDrop \/ (PostFinishStep /\ UNCHANGED engineVars)
  PROVE  ContentInv'
<1>b. TypeOK /\ MethodHasRoom /\ CallPlace
  BY ListTypes
<1>1. /\ DeallocateStep /\ op = "deallocate"
      /\ UNCHANGED <<num_computed_tokens, phase, scheduled_seqs, is_prefill, todo>>
      /\ UNCHANGED <<kvVars, moveVars, stage>>
      /\ phase \in {"decode", "postprocess"}
  BY <1>b DEF EngineDrop, EvictDropStep, PostFinishStep, DeallocateStep, CallPlace, engineVars,
              batchVars
<1>2. PICK s \in Request : s = cur
  BY <1>1, <1>b DEF TypeOK
<1>3. /\ UNCHANGED <<token_ids, num_prompt_tokens, status, placed, cpu_block_table, block_hash>>
      /\ block_table' = [block_table EXCEPT ![s] = Front(block_table[s])]
      /\ op' \in {"deallocate", "idle"}
  BY <1>1, <1>2 DEF DeallocateStep, seqVars, cacheVars, callVars, Return, Call
<1>4. block_table \in [Request -> Seq(BlockId)] /\ block_table[s] # <<>>
  BY <1>1, <1>2, <1>b DEF TypeOK, MethodHasRoom
<1>5. /\ DOMAIN Front(block_table[s]) = 1 .. Len(block_table[s]) - 1
      /\ \A j \in 1 .. Len(block_table[s]) - 1 : Front(block_table[s])[j] = block_table[s][j]
      /\ DOMAIN block_table[s] = 1 .. Len(block_table[s]) /\ Len(block_table[s]) \in Nat
  BY <1>4, FrontElements, LenProperties
<1>6. ASSUME NEW u \in Request, NEW i \in Held(u)'
      PROVE  i \in Held(u) /\ block_table'[u][i] = block_table[u][i]
  BY <1>1, <1>3, <1>4, <1>5, <1>6 DEF Held
<1>7. \A u \in Request \ {s} : Held(u)' = Held(u) /\ block_table'[u] = block_table[u]
  BY <1>1, <1>3, <1>4 DEF Held
<1>8. \A u \in Request : HeldCpu(u)' = HeldCpu(u)
  BY <1>1, <1>3 DEF HeldCpu
<1>9. ASSUME NEW u \in Request PROVE Have(u)' = Have(u)
  <2>1. ~Allocating(u) /\ ~Allocating(u)' /\ ~Prefilling(u) /\ ~Prefilling(u)'
    BY <1>1, <1>3 DEF Prefilling, Allocating
  <2>2. Decoding(u)' = Decoding(u)
    BY <1>1 DEF Decoding, Batch
  <2>3. Uncounted(u)' = Uncounted(u)
    BY <1>1 DEF Uncounted
  <2> QED
    BY <1>1, <1>3, <2>1, <2>2, <2>3 DEF Have, SeqLen, is_prefill_finished
<1>10. ASSUME NEW u \in Request, NEW i \in Held(u)'
      PROVE  /\ i \in Held(u) /\ block_table'[u][i] = block_table[u][i]
             /\ \A j \in Slots : Pos(i, j) <= Have(u)' =>
                  Pos(i, j) <= Have(u) /\ Prefix(u, Pos(i, j))' = Prefix(u, Pos(i, j))
  BY <1>3, <1>6, <1>9, <1>10 DEF Prefix, Pos
<1>11. \A u \in Request : \A i \in HeldCpu(u)' :
           /\ i \in HeldCpu(u) /\ cpu_block_table'[u][i] = cpu_block_table[u][i]
           /\ token_ids'[u] = token_ids[u]
  BY <1>3, <1>8
<1>12. \A b, j : DuePrefill(b, j) => DuePrefill(b, j)'
  BY <1>1 DEF DuePrefill, Prefilling, Allocating
<1>13. ASSUME NEW b, NEW j, DueDecode(b, j) PROVE DueDecode(b, j)'
  <2>1. PICK t \in Request : /\ Decoding(t)
                             /\ \E i \in Held(t) : block_table[t][i] = b /\ Pos(i, j) = SeqLen(t)
    BY <1>13 DEF DueDecode
  <2>2. t # s
    <3>1. t \in Batch /\ phase = "decode"
      BY <1>1, <2>1 DEF Decoding, Batch
    <3> QED
      BY <1>1, <1>2, <3>1, CurOutside
  <2>3. Decoding(t)'
    BY <1>1, <2>1 DEF Decoding, Batch
  <2> QED
    BY <1>3, <1>7, <2>1, <2>2, <2>3 DEF DueDecode, Pos, SeqLen
<1>14. FinalKv' = FinalKv /\ FinalCpu' = FinalCpu
  <2>1. Pending' = Pending
    BY <1>1 DEF Pending
  <2> QED
    BY <1>1, <2>1, FinalSame
<1>15. block_hash' = block_hash
  BY <1>3
<1> QED
  BY <1>10, <1>11, <1>12, <1>13, <1>14, <1>15, ContentFrame

\* run counts each chunk once (TodoInv).
LEMMA TodoStep ==
  ASSUME BaseInv, TodoInv, [EngineNext]_systemVars
  PROVE  TodoInv'
<1>b. QueueType /\ PlacedInv
  BY ListTypes DEF ClientInv
<1>1. [SchedulerNext]_allVars
  BY SchedulerSteps
<1> SUFFICES ASSUME phase' = "record" PROVE IsInjective(todo')
  BY DEF TodoInv
<1>2. CASE UNCHANGED allVars
  BY <1>2 DEF allVars, schedulerVars, TodoInv
<1>3. CASE Run
  <2>1. todo' = scheduled_seqs
    BY <1>3 DEF Run, Goto
  <2> QED
    BY <1>b, <2>1 DEF PlacedInv, FlightInv
<1>4. CASE Record
  <2>1. phase = "record" /\ todo # <<>> /\ todo' = Tail(todo)
    BY <1>4 DEF Record
  <2>2. todo \in Seq(Request) /\ IsInjective(todo)
    BY <1>b, <2>1 DEF QueueType, TodoInv
  <2> QED
    BY <2>1, <2>2, TailRange
<1>5. CASE UNCHANGED <<phase, todo>>
  BY <1>5 DEF TodoInv
<1>6. ASSUME SchedulerNext, ~Run, ~Record PROVE UNCHANGED <<phase, todo>>
  <2> USE <1>6 DEF Goto
  <2>1. CASE EngineStep
    <3> USE <2>1 DEF EngineStep
    <3>1. CASE Schedule \/ ResumePrefill \/ ResumeEnd \/ AdmitEnd \/ SwapInEnd \/ DecodeEnd \/ NothingScheduled
               \/ RecordEnd \/ PostEnd
      BY <3>1 DEF Schedule, ResumePrefill, ResumeEnd, AdmitEnd, SwapInEnd, DecodeEnd, NothingScheduled,
                  RecordEnd, PostEnd
    <3>2. CASE Admit \/ AdmitStep \/ SwapIn \/ SwapInIteration \/ PickDecode \/ Evict
      BY <3>2 DEF Admit, AdmitStep, SwapIn, SwapInIteration, PickDecode, Evict, schedulerVars
    <3>3. CASE EvictSwapStep \/ EvictDropStep \/ Decode \/ DecodeStep
      BY <3>3 DEF EvictSwapStep, EvictDropStep, Decode, DecodeStep, schedulerVars
    <3>4. CASE PostSkip \/ PostContinue \/ PostFinish \/ PostFinishStep \/ \E t \in Token : PostAppend(t)
      BY <3>4 DEF PostSkip, PostContinue, PostFinish, PostFinishStep, PostAppend, Postprocessing, schedulerVars
    <3> QED
      BY <3>1, <3>2, <3>3, <3>4
  <2>2. CASE (\E s \in Request : Add(s)) \/ AllDone
    BY <2>2 DEF Add, AllDone, allVars, schedulerVars
  <2> QED
    BY <2>1, <2>2 DEF SchedulerNext
<1> QED
  BY <1>1, <1>2, <1>3, <1>4, <1>5, <1>6

\* run counts the chunk that it has computed: what was stored before counts now.
LEMMA RecordContent ==
  ASSUME BaseInv, TodoInv, ComputedInv, ContentInv, UNCHANGED engineVars, Record
  PROVE  ContentInv'
<1>b. TypeOK /\ QueueType /\ SeqPlace
  BY ListTypes
<1>q. todo \in Seq(Request) /\ todo # <<>> /\ phase = "record" /\ EnableChunkedPrefill
      /\ IsInjective(todo)
  BY <1>b DEF Record, QueueType, SeqPlace, TodoInv
<1>1. PICK s \in Request : s = Head(todo)
  BY <1>q, EndsType
<1>2. /\ UNCHANGED <<token_ids, num_prompt_tokens, placed, block_table, cpu_block_table,
                     block_hash, phase, status, op, cur, scheduled_seqs, is_prefill>>
      /\ op = "idle" /\ status[s] = "running" /\ placed[s]
      /\ num_computed_tokens' =
           [num_computed_tokens EXCEPT ![s] = num_computed_tokens[s] + RunnerChunk(s)]
      /\ todo' = Tail(todo)
  BY <1>1 DEF Record, RecordComputed, Idle, seqVars, cacheVars, callVars, batchVars
<1>3. /\ \A u \in Request : u # s => num_computed_tokens'[u] = num_computed_tokens[u]
      /\ num_computed_tokens'[s] = num_computed_tokens[s] + RunnerChunk(s)
  BY <1>2, <1>b DEF QueueType
<1>4. s \in Range(todo) /\ Range(todo') = Range(todo) \ {s}
  BY <1>1, <1>2, <1>q, TailRange
<1>5. \A u \in Request : Held(u)' = Held(u) /\ HeldCpu(u)' = HeldCpu(u)
  BY <1>2 DEF Held, HeldCpu
<1>6. \A u \in Request : /\ ~Allocating(u) /\ ~Allocating(u)' /\ ~Decoding(u) /\ ~Decoding(u)'
  BY <1>2, <1>q DEF Allocating, Decoding
<1>7. ASSUME NEW u \in Request PROVE Have(u)' = Have(u)
  <2>1. CASE u # s
    <3>1. Uncounted(u)' = Uncounted(u)
      BY <1>2, <1>3, <1>4, <2>1 DEF Uncounted, RunnerChunk
    <3> QED
      BY <1>2, <1>3, <1>6, <1>q, <2>1, <3>1 DEF Have, SeqLen, is_prefill_finished
  <2>2. CASE u = s
    <3>t. /\ num_computed_tokens[s] \in Nat /\ num_prompt_tokens[s] \in Nat /\ SeqLen(s) \in Nat
      BY <1>b DEF TypeOK, QueueType, SeqLen
    <3>1. Uncounted(s) = RunnerChunk(s) /\ Uncounted(s)' = 0
      BY <1>2, <1>4, <1>q DEF Uncounted
    <3>2. RunnerChunk(s) \in Int
      BY <3>t, SchedulerAssumption DEF RunnerChunk, Least
    <3>3. is_prefill_finished(s) => is_prefill_finished(s)'
      BY <1>2, <1>3, <3>t, SchedulerAssumption DEF is_prefill_finished, RunnerChunk, Least
    <3>4. ~is_prefill_finished(s) /\ is_prefill_finished(s)' =>
            num_computed_tokens[s] + RunnerChunk(s) = SeqLen(s)
      <4>1. num_computed_tokens[s] + RunnerChunk(s) \in 0 .. num_prompt_tokens[s]
        BY <1>b, ChunkWithinPrompt
      <4>2. ~is_prefill_finished(s) => num_completion_tokens(s) = 0
        BY <1>q DEF ComputedInv
      <4> QED
        BY <1>2, <1>3, <4>1, <4>2, <3>t DEF is_prefill_finished, num_completion_tokens
    <3>5. Have(s) = IF is_prefill_finished(s) THEN SeqLen(s)
                    ELSE num_computed_tokens[s] + RunnerChunk(s)
      BY <1>2, <1>6, <1>q, <3>1 DEF Have
    <3>6. Have(s)' = IF is_prefill_finished(s)' THEN SeqLen(s)
                     ELSE num_computed_tokens[s] + RunnerChunk(s)
      <4>1. Have(s)' = IF is_prefill_finished(s)' THEN SeqLen(s)'
                       ELSE num_computed_tokens'[s] + 0
        BY <1>2, <1>6, <1>q, <3>1 DEF Have
      <4> QED
        BY <1>2, <1>3, <4>1, <3>2, <3>t DEF SeqLen
    <3> QED
      BY <2>2, <3>3, <3>4, <3>5, <3>6
  <2> QED
    BY <2>1, <2>2
<1>8. ASSUME NEW u \in Request, NEW i \in Held(u)'
      PROVE  /\ i \in Held(u) /\ block_table'[u][i] = block_table[u][i]
             /\ \A j \in Slots : Pos(i, j) <= Have(u)' =>
                  Pos(i, j) <= Have(u) /\ Prefix(u, Pos(i, j))' = Prefix(u, Pos(i, j))
  BY <1>2, <1>5, <1>7, <1>8 DEF Prefix, Pos
<1>9. \A u \in Request : \A i \in HeldCpu(u)' :
           /\ i \in HeldCpu(u) /\ cpu_block_table'[u][i] = cpu_block_table[u][i]
           /\ token_ids'[u] = token_ids[u]
  BY <1>2, <1>5
<1>10. \A b, j : ~DuePrefill(b, j) /\ ~DueDecode(b, j)
  BY <1>2, <1>q, NothingDue
<1>11. \A b, j : DuePrefill(b, j) => DuePrefill(b, j)'
  BY <1>10
<1>12. \A b, j : DueDecode(b, j) => DueDecode(b, j)'
  BY <1>10
<1>13. FinalKv' = FinalKv /\ FinalCpu' = FinalCpu
  <2>1. Pending' = Pending
    BY <1>2 DEF Pending
  <2> QED
    BY <2>1, FinalSame DEF engineVars
<1>14. block_hash' = block_hash
  BY <1>2
<1> QED
  BY <1>8, <1>9, <1>11, <1>12, <1>13, <1>14, ContentFrame

(***************************************************************************)
(* A sampled token is appended: it is not stored, and the sequence counts  *)
(* on one token less than it has.                                          *)
(***************************************************************************)
LEMMA PostAppendContent ==
  ASSUME BaseInv, ContentInv, UNCHANGED engineVars, NEW e \in Token, PostAppend(e)
  PROVE  ContentInv'
<1>b. TypeOK /\ QueueType /\ PlacedInv
  BY ListTypes
<1>q. todo \in Seq(Request) /\ todo # <<>> /\ phase = "postprocess"
  BY <1>b DEF PostAppend, Postprocessing, QueueType
<1>1. PICK s \in Request : s = Head(todo) /\ s \in Range(todo)
  <2>1. Head(todo) \in Request
    BY <1>q, EndsType
  <2>2. Head(todo) \in Range(todo)
    BY <1>q, <1>b, TailRange DEF PlacedInv, BatchInv
  <2> QED
    BY <2>1, <2>2
<1>2. /\ UNCHANGED <<num_prompt_tokens, block_table, cpu_block_table, num_cached_tokens,
                     num_computed_tokens,
                     block_hash, phase, status, op, cur, scheduled_seqs, is_prefill>>
      /\ op = "idle" /\ status[s] = "running" /\ placed[s] /\ ~NoToken(s)
      /\ token_ids' = [token_ids EXCEPT ![s] = Append(token_ids[s], e)]
      /\ placed' = [placed EXCEPT ![s] = FALSE]
  BY <1>1 DEF PostAppend, append_token, Idle, cacheVars, callVars, batchVars
<1>3. /\ \A u \in Request : u # s => token_ids'[u] = token_ids[u] /\ placed'[u] = placed[u]
      /\ token_ids'[s] = Append(token_ids[s], e) /\ ~placed'[s]
      /\ token_ids[s] \in Seq(Token)
  BY <1>2, <1>b DEF TypeOK
<1>4. \A u \in Request : Held(u)' = Held(u) /\ HeldCpu(u)' = HeldCpu(u)
  BY <1>2 DEF Held, HeldCpu
<1>5. HeldCpu(s) = {}
  BY <1>2, NoTables
<1>6. \A u \in Request : /\ ~Allocating(u) /\ ~Allocating(u)' /\ ~Decoding(u) /\ ~Decoding(u)'
                         /\ ~Prefilling(u) /\ ~Prefilling(u)'
                         /\ Uncounted(u) = 0 /\ Uncounted(u)' = 0
  BY <1>2, <1>q DEF Allocating, Decoding, Prefilling, Uncounted
<1>7. ASSUME NEW u \in Request, u # s PROVE Have(u)' = Have(u)
  BY <1>2, <1>3, <1>6, <1>7 DEF Have, SeqLen, is_prefill_finished
<1>8. Have(s) = SeqLen(s)
  <2>1. EnableChunkedPrefill => is_prefill_finished(s)
    BY <1>1, <1>2, <1>q, <1>b DEF NoToken, ChunkedBatch, PlacedInv, BatchInv, InFlight
  <2> QED
    BY <1>2, <1>6, <2>1 DEF Have
<1>9. Have(s)' = SeqLen(s) /\ SeqLen(s) \in Nat
  <2>1. SeqLen(s)' = SeqLen(s) + 1 /\ SeqLen(s) \in Nat
    BY <1>3, AppendProperties, LenProperties DEF SeqLen
  <2>2. Have(s)' = SeqLen(s)' - 1
    BY <1>2, <1>3, <1>6 DEF Have
  <2> QED
    BY <2>1, <2>2
<1>10. ASSUME NEW u \in Request, NEW i \in Held(u)'
      PROVE  /\ i \in Held(u) /\ block_table'[u][i] = block_table[u][i]
             /\ \A j \in Slots : Pos(i, j) <= Have(u)' =>
                  Pos(i, j) <= Have(u) /\ Prefix(u, Pos(i, j))' = Prefix(u, Pos(i, j))
  <2>1. i \in Held(u) /\ block_table'[u][i] = block_table[u][i]
    BY <1>2, <1>4, <1>10
  <2>2. i \in Nat \ {0}
    BY <2>1, <1>b, HeldEntry
  <2>3. ASSUME NEW j \in Slots, Pos(i, j) <= Have(u)'
        PROVE  Pos(i, j) <= Have(u) /\ SubSeq(token_ids'[u], 1, Pos(i, j)) = SubSeq(token_ids[u], 1, Pos(i, j))
    <3>1. CASE u # s
      BY <1>3, <1>7, <2>3, <3>1
    <3>2. CASE u = s
      <4>1. Pos(i, j) \in Nat /\ Pos(i, j) <= SeqLen(s)
        BY <2>2, <2>3, <3>2, <1>9, PosType
      <4>2. SubSeq(Append(token_ids[s], e), 1, Pos(i, j)) = SubSeq(token_ids[s], 1, Pos(i, j))
        BY <4>1, <1>3, PrefixKept DEF SeqLen
      <4> QED
        BY <4>1, <4>2, <1>3, <1>8, <3>2
    <3> QED
      BY <3>1, <3>2
  <2> QED
    BY <2>1, <2>3 DEF Prefix, Pos
<1>11. \A u \in Request : \A i \in HeldCpu(u)' :
           /\ i \in HeldCpu(u) /\ cpu_block_table'[u][i] = cpu_block_table[u][i]
           /\ token_ids'[u] = token_ids[u]
  BY <1>2, <1>3, <1>4, <1>5
<1>12. \A b, j : ~DuePrefill(b, j) /\ ~DueDecode(b, j)
  BY <1>2, <1>q, NothingDue
<1>13. \A b, j : DuePrefill(b, j) => DuePrefill(b, j)'
  BY <1>12
<1>14. \A b, j : DueDecode(b, j) => DueDecode(b, j)'
  BY <1>12
<1>15. FinalKv' = FinalKv /\ FinalCpu' = FinalCpu
  <2>1. Pending' = Pending
    BY <1>2 DEF Pending
  <2> QED
    BY <2>1, FinalSame DEF engineVars
<1>16. block_hash' = block_hash
  BY <1>2
<1> QED
  BY <1>10, <1>11, <1>13, <1>14, <1>15, <1>16, ContentFrame

\* No block is copied.
LEMMA DecodeQuiet ==
  ASSUME BaseInv, ContentInv, EngineDecode, UNCHANGED <<block_table, block_hash, cow_pairs>>
  PROVE  ContentInv'
<1>b. TypeOK
  BY ListTypes
<1>1. /\ op = "idle" /\ phase = "decode" /\ op' \in {"idle", "may_append"}
      /\ UNCHANGED <<swap_in_map, swap_out_map, stage, kvVars, phase,
                        token_ids, num_prompt_tokens, placed, status, scheduled_seqs,
                        is_prefill, num_cached_tokens, num_computed_tokens, todo,
                        cpu_block_table>>
  BY DecodeMove
<1>2. \A u \in Request : Held(u)' = Held(u) /\ HeldCpu(u)' \subseteq HeldCpu(u)
  BY <1>1 DEF Held, HeldCpu
<1>3. \A u \in Request : Allocating(u)' = Allocating(u)
  BY <1>1 DEF Allocating
<1>4. \A u \in Request : Prefilling(u)' = Prefilling(u)
  BY <1>1, <1>3 DEF Prefilling
<1>5. \A u \in Request : Decoding(u)' = Decoding(u)
  BY <1>1 DEF Decoding, Batch
<1>6. \A u \in Request : Uncounted(u)' = Uncounted(u)
  BY <1>1 DEF Uncounted
<1>7. FinalKv' = FinalKv /\ FinalCpu' = FinalCpu
  <2>1. Pending' = Pending
    BY <1>1 DEF Pending
  <2> QED
    BY <1>1, <2>1, FinalSame DEF moveVars
<1>8. \A u \in Request :
           \/ status'[u] = status[u]
           \/ status'[u] \notin {"running", "swapped"} /\ ~Allocating(u)
  BY <1>1
<1>9. UNCHANGED <<token_ids, num_prompt_tokens, placed, block_table, cpu_block_table,
                     block_hash, num_cached_tokens, num_computed_tokens>>
  BY <1>1
<1> QED
  BY <1>b, <1>2, <1>3, <1>4, <1>5, <1>6, <1>7, <1>8, <1>9, ContentQuiet

-----------------------------------------------------------------------------
(* Blocks that a sequence is given.                                        *)

\* An entry that stays, with what it holds.
LEMMA EntryStays ==
  ASSUME HeldRight, NEW u \in Request, NEW i \in Held(u), NEW j \in Slots, NEW x,
         x = block_table[u][i], block_table'[u][i] = x,
         FinalKv'[x] = FinalKv[x], Prefix(u, Pos(i, j))' = Prefix(u, Pos(i, j)),
         DuePrefill(x, j) => DuePrefill(x, j)',
         Pos(i, j) <= Have(u)
  PROVE  (\/ FinalKv[block_table[u][i]][j] = Prefix(u, Pos(i, j))
          \/ DuePrefill(block_table[u][i], j))'
<1>1. FinalKv[x][j] = Prefix(u, Pos(i, j)) \/ DuePrefill(x, j)
  BY DEF HeldRight
<1>2. FinalKv'[x][j] = Prefix(u, Pos(i, j))' \/ DuePrefill(x, j)'
  BY <1>1
<1>3. x = block_table[u][i]'
  OBVIOUS
<1> QED
  BY <1>2, <1>3 DEF Pos

\* What a hit finds is labelled with the hash that is looked for.
LEMMA HitLabel ==
  ASSUME BaseInv, BlocksDeterminePrefix, op = "allocate", CacheHit, NEW b \in BlockId,
         b = hash_to_block_id[NextHash], NEW s \in Request, s = cur,
         NEW n \in Nat, n = Len(block_table[s])
  PROVE  /\ block_hash[b] = NextHash /\ NextHash # NoHash
         /\ NextHash = PrefixHash(s, n + 1)
         /\ (n + 1) * BlockSize <= SeqLen(s)
<1>b. /\ TypeOK /\ IndexInv /\ ChainFollows /\ MethodHasRoom
  BY ListTypes DEF CacheInv, LabelInv
<1>1. n * BlockSize < SeqLen(s)
  <2>1. n < num_blocks(s)
    BY <1>b DEF MethodHasRoom
  <2>2. SeqLen(s) \in Nat
    BY <1>b DEF TypeOK, SeqLen
  <2>3. num_blocks(s) = PagesFor(SeqLen(s))
    BY DEF num_blocks, PagesFor
  <2> QED
    BY <2>1, <2>2, <2>3, PagesReach
<1>2. NextHash # NoHash /\ NextHash \in DOMAIN hash_to_block_id /\ block_token_ids[b] = NextTokens
  BY <1>b DEF CacheHit, IndexInv
<1>3. /\ NextHash # NoHash <=> (n + 1) * BlockSize <= SeqLen(cur)
      /\ NextHash # NoHash => /\ NextHash = PrefixHash(cur, n + 1)
                              /\ LastBlockOf(NextHash) = NextTokens
                              /\ Len(NextTokens) = BlockSize
  BY <1>1, <1>b, NextLabel
<1>4. block_hash[b] # NoHash
  <2>1. Len(NextTokens) # 0
    BY <1>2, <1>3, BlockManagerAssumption
  <2>2. NextTokens # <<>>
    BY <2>1
  <2> QED
    BY <1>2, <1>b, <2>2 DEF IndexInv, LabelsIndexed
<1>5. block_hash[b] \in DOMAIN hash_to_block_id /\ block_token_ids[b] = LastBlockOf(block_hash[b])
  BY <1>4, <1>b DEF IndexInv, LabelsIndexed
<1>6. block_hash[b] = NextHash
  BY <1>2, <1>3, <1>5 DEF BlocksDeterminePrefix
<1> QED
  BY <1>2, <1>3, <1>6

(***************************************************************************)
(* One step of allocate: a block that the prefix cache offers holds the    *)
(* tokens of its label, which are the sequence's own; any other is going   *)
(* to be filled by the batch.                                              *)
(***************************************************************************)
LEMMA AdmitStepContent ==
  ASSUME BaseInv, CountedInv, ComputedInv, ContentInv, Good, Good', UNCHANGED engineVars, AdmitStep
  PROVE  ContentInv'
<1>b. /\ TypeOK /\ TypeInv /\ QueueType /\ CallPlace /\ CacheInv /\ CachedInv /\ PoolInv
      /\ FitInv /\ ManagerInv /\ MethodHasRoom /\ IndexInv
  BY ListTypes DEF CacheInv, LabelInv
<1>1. AllocateStep /\ op = "allocate" /\ phase = "admit" /\ phase' = "admit" /\ error = "none"
      /\ UNCHANGED <<num_computed_tokens, is_prefill>>
  BY <1>b DEF AdmitStep, AllocateStep, AllocateMiss, AllocateShared, AllocateRevived, CallPlace
<1>2. PICK s \in Request : s = cur
  BY <1>1, <1>b DEF TypeOK
<1>n. PICK n \in Nat : n = Len(block_table[s])
  <2>1. block_table[s] \in Seq(BlockId)
    BY <1>b DEF TypeOK
  <2> QED
    BY <2>1, LenProperties
<1>3. /\ UNCHANGED token_ids
      /\ \A u \in Request \ {s} : num_cached_tokens'[u] = num_cached_tokens[u]
      /\ op' # "idle" => cur' = s /\ UNCHANGED status
      /\ op' = "idle" => status' = [status EXCEPT ![s] = "running"]
  BY <1>1, <1>2, <1>b, AllocateCount
<1>4. \E b \in BlockId : AddToTable(b)
        /\ \/ CacheHit /\ b = hash_to_block_id[NextHash]
              /\ num_cached_tokens' = [num_cached_tokens EXCEPT ![cur] = @ + BlockSize]
           \/ ~CacheHit /\ b = Head(free_block_ids) /\ UNCHANGED num_cached_tokens
  <2>1. free_block_ids # <<>>
    BY <1>1, <1>2, <1>n, <1>b, BlockManagerAssumption, NumBlocksPositive DEF MethodHasRoom
  <2>2. Head(free_block_ids) \in BlockId
    BY <2>1, <1>b, EndsType DEF TypeOK
  <2>3. CacheHit => hash_to_block_id[NextHash] \in BlockId
    BY <1>b DEF CacheHit, TypeOK
  <2> QED
    BY <1>1, <2>2, <2>3 DEF AllocateStep, AllocateMiss, AllocateShared, AllocateRevived, CountCached
<1>5. PICK b \in BlockId : AddToTable(b)
        /\ \/ CacheHit /\ b = hash_to_block_id[NextHash]
              /\ num_cached_tokens' = [num_cached_tokens EXCEPT ![cur] = @ + BlockSize]
           \/ ~CacheHit /\ b = Head(free_block_ids) /\ UNCHANGED num_cached_tokens
  BY <1>4
<1>6. /\ Label(b, NextHash, NextTokens)
      /\ block_table'[s][n + 1] = b
      /\ \A u \in Request : \A i \in Held(u)' : ~ (u = s /\ i = n + 1) =>
           i \in Held(u) /\ block_table'[u][i] = block_table[u][i]
      /\ (n + 1) * BlockSize > SeqLen(s) => NextHash = NoHash
  BY <1>1, <1>2, <1>5, <1>b, <1>n, AllocateIteration
<1>7. /\ UNCHANGED <<num_prompt_tokens, cpu_block_table>> /\ op' \in {"allocate", "idle"}
      /\ \A u \in Request : u # s => status'[u] = status[u] /\ placed'[u] = placed[u]
      /\ op' = "idle" => status'[s] = "running" /\ placed'[s]
  <2>t. status \in [Request -> {"absent", "waiting", "running", "swapped", "finished"}]
        /\ placed \in [Request -> BOOLEAN]
    BY <1>b DEF TypeOK
  <2> QED
    BY <1>1, <1>2, <1>5, <2>t DEF AddToTable, Return, Call
<1>8. /\ op' = "idle" => Batch' = Batch \cup {s}
      /\ op' # "idle" => Batch' = Batch
  <2>1. scheduled_seqs \in Seq(Request)
    BY <1>b DEF QueueType
  <2>2. Range(Append(scheduled_seqs, s)) = Range(scheduled_seqs) \cup {s}
    BY <2>1, RangeAppend
  <2> QED
    BY <1>2, <2>2 DEF AdmitStep, Batch
<1>9. /\ Prefilling(s) /\ Prefilling(s)'
      /\ \A u \in Request : u # s => Prefilling(u)' = Prefilling(u)
                                     /\ ~Allocating(u) /\ ~Allocating(u)'
  BY <1>1, <1>2, <1>3, <1>7, <1>8 DEF Prefilling, Allocating
<1>10. \A u \in Request : ~Decoding(u) /\ ~Decoding(u)' /\ Uncounted(u) = 0 /\ Uncounted(u)' = 0
  BY <1>1 DEF Decoding, Uncounted
<1>11. ASSUME NEW u \in Request, u # s PROVE Have(u)' = Have(u)
  BY <1>1, <1>3, <1>7, <1>9, <1>10, <1>11 DEF Have, SeqLen, is_prefill_finished
<1>12. Have(s) = IF EnableChunkedPrefill THEN 0 ELSE num_cached_tokens[s]
  BY <1>1, <1>2 DEF Have, Allocating
<1>13. Have(s)' = IF EnableChunkedPrefill THEN 0 ELSE num_cached_tokens'[s]
  <2>1. CASE op' # "idle"
    BY <1>3, <1>7, <2>1 DEF Have, Allocating
  <2>2. CASE op' = "idle"
    <3>1. num_computed_tokens[s] = 0
      BY <1>1, <1>2, <1>b DEF ComputedInv, MethodHasRoom, Good
    <3>2. num_prompt_tokens[s] > 0
      <4>1. PromptKept /\ status[s] = "waiting"
        BY <1>1, <1>2, <1>b, ListTypes DEF MethodHasRoom, ClientInv
      <4>2. PICK p \in Prompts : num_prompt_tokens[s] = Len(p)
        BY <4>1 DEF PromptKept
      <4>3. p \in Seq(Token) /\ p # <<>>
        BY <4>2, BlockManagerAssumption
      <4> QED
        BY <4>2, <4>3, EmptySeq, LenProperties
    <3>3. ~is_prefill_finished(s)'
      <4>1. num_prompt_tokens[s] \in Nat
        BY <1>b DEF TypeOK
      <4>2. num_computed_tokens'[s] = 0 /\ num_prompt_tokens'[s] = num_prompt_tokens[s]
        BY <1>1, <1>7, <3>1
      <4> QED
        BY <3>2, <4>1, <4>2 DEF is_prefill_finished
    <3>4. ~Allocating(s)' /\ status'[s] = "running" /\ placed'[s] /\ ~Decoding(s)' /\ Prefilling(s)'
          /\ Uncounted(s)' = 0 /\ num_computed_tokens'[s] = 0
      BY <1>1, <1>7, <1>9, <1>10, <2>2, <3>1 DEF Allocating
    <3> QED
      BY <3>3, <3>4 DEF Have
  <2> QED
    BY <2>1, <2>2
<1>h. /\ n + 1 \in Held(s)'
      /\ \A i \in Held(s) : i \in 1 .. n
  <2>t. block_table \in [Request -> Seq(BlockId)]
    BY <1>b DEF TypeOK
  <2>1. block_table' = [block_table EXCEPT ![s] = Append(block_table[s], b)]
    BY <1>2, <1>5 DEF AddToTable
  <2>2. block_table'[s] = Append(block_table[s], b)
    BY <2>1, <2>t
  <2>3. DOMAIN block_table'[s] = 1 .. n + 1 /\ DOMAIN block_table[s] = 1 .. n
    <3>1. Append(block_table[s], b) \in Seq(BlockId) /\ Len(Append(block_table[s], b)) = n + 1
      BY <2>t, <1>n, AppendProperties
    <3> QED
      BY <3>1, <2>2, <2>t, <1>n, LenProperties
  <2> QED
    BY <1>7, <2>3 DEF Held
<1>14. /\ num_cached_tokens[s] \in Nat /\ num_cached_tokens[s] <= n * BlockSize
       /\ SeqLen(s) \in Nat
  BY <1>1, <1>2, <1>n, <1>b DEF TypeOK, CachedInv, SeqLen
<1>15. /\ CacheHit => /\ num_cached_tokens[s] = n * BlockSize
                      /\ num_cached_tokens'[s] = n * BlockSize + BlockSize
       /\ ~CacheHit => num_cached_tokens'[s] = num_cached_tokens[s]
  <2>1. CacheHit => num_cached_tokens[s] = n * BlockSize
    BY <1>1, <1>2, <1>n DEF CacheHit, CountedInv
  <2>2. num_cached_tokens \in [Request -> Nat]
    BY <1>b DEF TypeOK
  <2> QED
    BY <1>2, <1>5, <2>1, <2>2
<1>16. ASSUME NEW i \in 1 .. n, NEW j \in Slots PROVE Pos(i, j) \in Nat \ {0} /\ Pos(i, j) <= n * BlockSize
  <2>1. Pos(i, j) \in Nat \ {0} /\ Pos(i, j) <= i * BlockSize /\ BlockSize \in Nat
    BY PosType
  <2>2. i * BlockSize <= n * BlockSize
    <3>1. \A p, q \in Nat : p <= q => p * BlockSize <= q * BlockSize
      BY <2>1
    <3> QED
      BY <3>1
  <2>3. i * BlockSize \in Nat /\ n * BlockSize \in Nat
    BY <2>1
  <2> QED
    BY <2>1, <2>2, <2>3
<1>17. ASSUME NEW j \in Slots
       PROVE  /\ n * BlockSize < Pos(n + 1, j) /\ Pos(n + 1, j) <= (n + 1) * BlockSize
              /\ Pos(n + 1, j) = n * BlockSize + j /\ n * BlockSize \in Nat
              /\ Pos(n + 1, j) \in Nat \ {0}
              /\ (n + 1) * BlockSize \in Nat /\ (n + 1) * BlockSize = n * BlockSize + BlockSize
  BY <1>17, NextPos
<1>18. ASSUME NEW x, NEW j \in Slots, DuePrefill(x, j) PROVE DuePrefill(x, j)'
  <2>1. PICK t \in Request :
       /\ Prefilling(t)
       /\ \E i \in Held(t) : /\ block_table[t][i] = x
                             /\ num_cached_tokens[t] < Pos(i, j) /\ Pos(i, j) <= SeqLen(t)
    BY <1>18 DEF DuePrefill
  <2>2. PICK i \in Held(t) : /\ block_table[t][i] = x
                             /\ num_cached_tokens[t] < Pos(i, j) /\ Pos(i, j) <= SeqLen(t)
    BY <2>1
  <2>c. ~EnableChunkedPrefill
    BY <1>18 DEF DuePrefill
  <2>3. i \in Held(t)' /\ block_table'[t][i] = x
    <3>t. block_table \in [Request -> Seq(BlockId)]
      BY <1>b DEF TypeOK
    <3>1. block_table' = [block_table EXCEPT ![s] = Append(block_table[s], b)]
      BY <1>2, <1>5 DEF AddToTable
    <3>2. i \in DOMAIN block_table[t]
      BY DEF Held
    <3>3. CASE t # s
      <4>1. block_table'[t] = block_table[t]
        BY <3>1, <3>3, <3>t
      <4> QED
        BY <1>7, <2>2, <3>2, <4>1 DEF Held
    <3>4. CASE t = s
      <4>1. block_table'[s] = Append(block_table[s], b) /\ block_table[s] \in Seq(BlockId)
        BY <3>1, <3>t
      <4>2. i \in 1 .. n
        BY <1>h, <3>4
      <4>3. i \in DOMAIN Append(block_table[s], b) /\ Append(block_table[s], b)[i] = block_table[s][i]
        BY <1>n, <4>1, <4>2, AppendProperties, LenProperties
      <4> QED
        BY <1>7, <2>2, <3>4, <4>1, <4>3 DEF Held
    <3> QED
      BY <3>3, <3>4
  <2>4. num_cached_tokens'[t] < Pos(i, j)
    <3>1. CASE t # s
      BY <1>3, <2>2, <3>1
    <3>2. CASE t = s
      <4>1. i \in 1 .. n
        BY <1>h, <3>2
      <4>2. Pos(i, j) <= n * BlockSize /\ Pos(i, j) \in Nat
        BY <1>16, <4>1
      <4>3. n * BlockSize \in Nat
        BY <1>17
      <4> QED
        BY <1>14, <1>15, <2>2, <3>2, <4>2, <4>3
    <3> QED
      BY <3>1, <3>2
  <2>5. Prefilling(t)'
    BY <1>9, <2>1
  <2>6. Pos(i, j) <= SeqLen(t)'
    BY <1>3, <2>2 DEF SeqLen
  <2> QED
    BY <2>c, <2>3, <2>4, <2>5, <2>6 DEF DuePrefill, Pos
<1>19. FinalKv' = FinalKv /\ FinalCpu' = FinalCpu
  <2>1. Pending' = Pending
    BY <1>1 DEF Pending
  <2> QED
    BY <2>1, FinalSame DEF engineVars
<1>hit. ASSUME CacheHit
        PROVE  /\ block_hash[b] = NextHash /\ NextHash # NoHash
               /\ NextHash = PrefixHash(s, n + 1)
               /\ (n + 1) * BlockSize <= SeqLen(s)
  <2>1. BlocksDeterminePrefix
    BY DEF Good
  <2>2. b = hash_to_block_id[NextHash]
    BY <1>5, <1>hit
  <2> QED
    BY <1>1, <1>2, <1>n, <1>hit, <2>1, <2>2, HitLabel
<1>20. HeldRight'
  <2>1. ASSUME NEW u \in Request, NEW i \in Held(u)', NEW j \in Slots, Pos(i, j) <= Have(u)'
        PROVE  (\/ FinalKv[block_table[u][i]][j] = Prefix(u, Pos(i, j))
                \/ DuePrefill(block_table[u][i], j))'
    <3>1. CASE ~(u = s /\ i = n + 1)
      <4>1. i \in Held(u) /\ block_table'[u][i] = block_table[u][i]
        BY <1>6, <3>1, <2>1
      <4>2. Pos(i, j) <= Have(u)
        <5>1. CASE u # s
          BY <1>11, <2>1, <5>1
        <5>2. CASE u = s
          <6>1. i \in 1 .. n
            BY <1>h, <4>1, <5>2
          <6>2. Pos(i, j) \in Nat \ {0} /\ Pos(i, j) <= n * BlockSize
            BY <1>16, <6>1
          <6> QED
            BY <1>12, <1>13, <1>14, <1>15, <2>1, <5>2, <6>2
        <5> QED
          BY <5>1, <5>2
      <4>3. Prefix(u, Pos(i, j))' = Prefix(u, Pos(i, j))
        BY <1>3 DEF Prefix, Pos
      <4>4. PICK x : x = block_table[u][i]
        OBVIOUS
      <4>5. DuePrefill(x, j) => DuePrefill(x, j)'
        BY <1>18
      <4>6. HeldRight
        BY DEF ContentInv
      <4>7. x = block_table[u][i] /\ block_table'[u][i] = x
        BY <4>1, <4>4
      <4>8. FinalKv'[x] = FinalKv[x]
        BY <1>19
      <4> QED
        BY <4>1, <4>2, <4>3, <4>5, <4>6, <4>7, <4>8, EntryStays
    <3>2. CASE u = s /\ i = n + 1
      <4>1. Pos(n + 1, j) <= Have(s)'
        BY <2>1, <3>2
      <4>2. CacheHit /\ ~EnableChunkedPrefill
        BY <1>13, <1>14, <1>15, <1>17, <4>1
      <4>3. /\ block_hash[b] = NextHash /\ NextHash # NoHash
            /\ NextHash = PrefixHash(s, n + 1)
            /\ (n + 1) * BlockSize <= SeqLen(s)
        BY <1>hit, <4>2
      <4>4. \/ FinalKv[b][j] = SubSeq(block_hash[b], 1, LabelPos(b, j))
            \/ DuePrefill(b, j)
        <5>1. ~DueDecode(b, j)
          BY <1>10 DEF DueDecode
        <5> QED
          BY <4>2, <4>3, <5>1 DEF ContentInv, LabelsRight
      <4>5. LabelPos(b, j) = Pos(n + 1, j)
        <5>1. Len(PrefixHash(s, n + 1)) = (n + 1) * BlockSize
          BY <1>b, <4>3, PrefixType
        <5> QED
          BY <1>17, <4>3, <5>1, BlockManagerAssumption DEF LabelPos
      <4>6. SubSeq(PrefixHash(s, n + 1), 1, Pos(n + 1, j)) = Prefix(s, Pos(n + 1, j))
        <5>1. (n + 1) * BlockSize \in 0 .. SeqLen(s) /\ Pos(n + 1, j) \in 0 .. (n + 1) * BlockSize
          BY <1>14, <1>17, <4>3
        <5>2. Prefix(s, Pos(n + 1, j)) = SubSeq(SubSeq(token_ids[s], 1, (n + 1) * BlockSize), 1, Pos(n + 1, j))
          BY <1>b, <5>1, PrefixWithin
        <5> QED
          BY <5>2 DEF PrefixHash
      <4>7. FinalKv'[b][j] = Prefix(s, Pos(n + 1, j))' \/ DuePrefill(b, j)'
        <5>1. FinalKv[b][j] = Prefix(s, Pos(n + 1, j)) \/ DuePrefill(b, j)
          BY <4>3, <4>4, <4>5, <4>6
        <5>2. Prefix(s, Pos(n + 1, j))' = Prefix(s, Pos(n + 1, j))
          BY <1>3 DEF Prefix, Pos
        <5> QED
          BY <1>18, <1>19, <5>1, <5>2
      <4>8. b = block_table[s][n + 1]'
        BY <1>6
      <4> QED
        BY <3>2, <4>7, <4>8 DEF Pos
    <3> QED
      BY <3>1, <3>2
  <2> QED
    BY <2>1 DEF HeldRight, Pos
<1>21. LabelsRight'
  <2> SUFFICES ASSUME ~EnableChunkedPrefill, NEW x \in BlockId, NEW j \in Slots,
                      block_hash'[x] # NoHash
               PROVE  (\/ FinalKv[x][j] = SubSeq(block_hash[x], 1, LabelPos(x, j))
                       \/ DuePrefill(x, j)
                       \/ DueDecode(x, j))'
    BY DEF LabelsRight, LabelPos
  <2>1. /\ block_hash'[b] = NextHash
        /\ \A c \in BlockId \ {b} : block_hash'[c] = block_hash[c]
    BY <1>6, <1>b, LabelEffect
  <2>2. CASE x # b \/ CacheHit
    <3>1. block_hash'[x] = block_hash[x]
      BY <1>hit, <2>1, <2>2
    <3>2. \/ FinalKv[x][j] = SubSeq(block_hash[x], 1, LabelPos(x, j))
          \/ DuePrefill(x, j)
      <4>1. ~DueDecode(x, j)
        BY <1>10 DEF DueDecode
      <4> QED
        BY <3>1, <4>1 DEF ContentInv, LabelsRight
    <3>3. DuePrefill(x, j) => DuePrefill(x, j)'
      BY <1>18
    <3>4. LabelPos(x, j)' = LabelPos(x, j)
      BY <3>1 DEF LabelPos
    <3> QED
      BY <1>19, <3>1, <3>2, <3>3, <3>4
  <2>3. CASE x = b /\ ~CacheHit
    <3>1. ~((n + 1) * BlockSize > SeqLen(s))
      BY <1>6, <2>1, <2>3
    <3>2. Pos(n + 1, j) <= SeqLen(s)' /\ num_cached_tokens'[s] < Pos(n + 1, j)
      <4>1. SeqLen(s)' = SeqLen(s)
        BY <1>3 DEF SeqLen
      <4> QED
        BY <1>14, <1>15, <1>17, <2>3, <3>1, <4>1
    <3>3. DuePrefill(x, j)'
      BY <1>6, <1>9, <1>h, <2>3, <3>2 DEF DuePrefill, Pos
    <3> QED
      BY <3>3
  <2> QED
    BY <2>2, <2>3
<1>22. CpuRight'
  <2>1. \A u \in Request : HeldCpu(u)' = HeldCpu(u)
    BY <1>1, <1>7 DEF HeldCpu
  <2> QED
    BY <1>3, <1>7, <1>19, <2>1 DEF ContentInv, CpuRight, SeqLen, Prefix, Pos
<1> QED
  BY <1>20, <1>21, <1>22 DEF ContentInv

\* A label that is the prefix of a sequence names the prefixes of that sequence.
LEMMA LabelNames ==
  ASSUME TypeOK, NEW s \in Request, NEW n \in Nat, (n + 1) * BlockSize <= SeqLen(s), NEW j \in Slots
  PROVE  /\ (Len(PrefixHash(s, n + 1)) - BlockSize) + j = Pos(n + 1, j)
         /\ SubSeq(PrefixHash(s, n + 1), 1, Pos(n + 1, j)) = Prefix(s, Pos(n + 1, j))
<1>1. /\ Pos(n + 1, j) <= (n + 1) * BlockSize
      /\ Pos(n + 1, j) = n * BlockSize + j /\ n * BlockSize \in Nat
      /\ Pos(n + 1, j) \in Nat \ {0}
      /\ (n + 1) * BlockSize \in Nat /\ (n + 1) * BlockSize = n * BlockSize + BlockSize
  BY NextPos
<1>2. Len(PrefixHash(s, n + 1)) = (n + 1) * BlockSize
  BY PrefixType
<1>3. SeqLen(s) \in Nat
  BY DEF TypeOK, SeqLen
<1>4. (n + 1) * BlockSize \in 0 .. SeqLen(s) /\ Pos(n + 1, j) \in 0 .. (n + 1) * BlockSize
  BY <1>1, <1>3
<1>5. Prefix(s, Pos(n + 1, j)) = SubSeq(SubSeq(token_ids[s], 1, (n + 1) * BlockSize), 1, Pos(n + 1, j))
  BY <1>4, PrefixWithin
<1> QED
  BY <1>1, <1>2, <1>5, BlockManagerAssumption DEF PrefixHash

(***************************************************************************)
(* One step of swap_in: the block will hold what the CPU block holds, and  *)
(* its new label says so, unless a token without data fills it.            *)
(***************************************************************************)
LEMMA SwapInContent ==
  ASSUME BaseInv, StageInv, MovesInv, TargetsInv, ContentInv, Good, Good', EngineSwapIn
  PROVE  ContentInv'
<1>b. /\ TypeOK /\ TypeInv /\ QueueType /\ CallPlace /\ ChainFollows /\ PoolInv
      /\ FitInv /\ MethodHasRoom /\ PlacedInv
  BY ListTypes DEF CacheInv
<1>0. op = "swap_in" /\ phase = "swap_in" /\ phase' = phase
  BY MovePlace DEF BaseInv
<1>1. PICK s \in Request : s = cur
  BY <1>0, <1>b DEF TypeOK
<1>2. PICK g \in BlockId, c \in CpuBlockId :
           LET n == Len(block_table[s])
           IN /\ n \in Nat /\ n + 1 \in HeldCpu(s) /\ cpu_block_table[s][n + 1] = c
              /\ g = Head(free_block_ids) /\ ref_count[g] = 0
              /\ swap_in_map' = Append(swap_in_map, <<c, g>>)
              /\ block_table' = [block_table EXCEPT ![s] = Append(block_table[s], g)]
              /\ block_table[s] \in Seq(BlockId)
              /\ Label(g, NextHash, NextTokens)
              /\ unstored' = (unstored \/ (n + 1) * BlockSize = SeqLen(s))
              /\ op' \in {"swap_in", "idle"}
              /\ status[s] = "swapped" /\ Len(cpu_block_table[s]) \in Nat
              /\ UNCHANGED <<token_ids, num_prompt_tokens, placed, scheduled_seqs>>
  BY <1>1, SwapInMove
<1>n. PICK n \in Nat : n = Len(block_table[s])
  BY <1>2
<1>3. /\ n + 1 \in HeldCpu(s) /\ cpu_block_table[s][n + 1] = c
      /\ g = Head(free_block_ids) /\ ref_count[g] = 0
      /\ swap_in_map' = Append(swap_in_map, <<c, g>>)
      /\ block_table' = [block_table EXCEPT ![s] = Append(block_table[s], g)]
      /\ Label(g, NextHash, NextTokens)
      /\ unstored' = (unstored \/ (n + 1) * BlockSize = SeqLen(s))
      /\ op' \in {"swap_in", "idle"}
      /\ status[s] = "swapped"
      /\ UNCHANGED <<token_ids, num_prompt_tokens, placed, scheduled_seqs>>
  BY <1>2, <1>n
<1>4. /\ UNCHANGED <<num_cached_tokens, num_computed_tokens, is_prefill, todo>>
      /\ \/ cpu_block_table' = cpu_block_table /\ status' = status /\ op' = op /\ cur' = cur
         \/ /\ cpu_block_table' = [cpu_block_table EXCEPT ![s] = <<>>]
            /\ status' = [status EXCEPT ![s] = "running"] /\ op' = "idle"
  BY <1>1 DEF EngineSwapIn, SwapInIteration, SwapInStep, Return, Call, batchVars
<1>5. /\ \A u \in Request : u # s => status'[u] = status[u]
      /\ status'[s] \in {"swapped", "running"}
      /\ \A u \in Request : u # s => cpu_block_table'[u] = cpu_block_table[u]
  <2>1. status \in [Request -> {"absent", "waiting", "running", "swapped", "finished"}]
        /\ cpu_block_table \in [Request -> Seq(CpuBlockId)]
    BY <1>b DEF TypeOK
  <2> QED
    BY <1>3, <1>4, <2>1
<1>6. /\ FinalKv'[g] = FinalCpu[c]
      /\ \A x \in BlockId : x # g => FinalKv'[x] = FinalKv[x]
      /\ FinalCpu' = FinalCpu
  BY <1>3, FinalSwapIn
<1>7. \A b, j : ~DuePrefill(b, j) /\ ~DueDecode(b, j)
  BY <1>0, NothingDue
<1>8. \A u \in Request : /\ ~Allocating(u) /\ ~Allocating(u)' /\ ~Prefilling(u) /\ ~Prefilling(u)'
                         /\ ~Decoding(u) /\ ~Decoding(u)' /\ Uncounted(u) = 0 /\ Uncounted(u)' = 0
  BY <1>0, <1>3 DEF Allocating, Prefilling, Decoding, Uncounted
<1>9. ASSUME NEW u \in Request, u # s PROVE Have(u)' = Have(u)
  BY <1>3, <1>4, <1>5, <1>8, <1>9 DEF Have, SeqLen, is_prefill_finished
<1>10. ~placed[s] /\ SeqLen(s) \in Nat \ {0}
  <2>1. ~placed[s]
    BY <1>3, <1>b DEF PlacedInv, FlightInv, Awaits
  <2>2. token_ids[s] \in Seq(Token) /\ token_ids[s] # <<>>
    BY <1>3, <1>b DEF TypeInv, TypeOK, TablesFollowStatus
  <2> QED
    BY <2>1, <2>2, EmptySeq, LenProperties DEF SeqLen
<1>11. Have(s) = SeqLen(s) - 1 /\ Have(s)' = SeqLen(s) - 1
  <2>1. Have(s) = SeqLen(s) - 1
    BY <1>3, <1>8, <1>10 DEF Have
  <2>2. Have(s)' = SeqLen(s)' - 1
    BY <1>3, <1>5, <1>8, <1>10 DEF Have
  <2> QED
    BY <1>3, <2>1, <2>2 DEF SeqLen
<1>12. /\ block_table'[s][n + 1] = g
       /\ \A u \in Request : \A i \in Held(u)' : ~ (u = s /\ i = n + 1) =>
            i \in Held(u) /\ block_table'[u][i] = block_table[u][i]
  <2>1. op # "swap_out" /\ op' # "swap_out"
    BY <1>0, <1>3
  <2>2. block_table' = [block_table EXCEPT ![s] = Append(block_table[s], g)]
    BY <1>3
  <2>3. block_table'[s][Len(block_table[s]) + 1] = g
    BY <1>b, <2>1, <2>2, GrownTable
  <2>4. \A u \in Request : \A i \in Held(u)' : ~ (u = s /\ i = Len(block_table[s]) + 1) =>
            i \in Held(u) /\ block_table'[u][i] = block_table[u][i]
    BY <1>b, <2>1, <2>2, GrownHeld
  <2> QED
    BY <1>n, <2>3, <2>4
<1>13. ASSUME NEW j \in Slots, Pos(n + 1, j) <= SeqLen(s) - 1
       PROVE  FinalKv'[g][j] = Prefix(s, Pos(n + 1, j))
  <2>1. FinalCpu[cpu_block_table[s][n + 1]][j] = Prefix(s, Pos(n + 1, j))
    BY <1>3, <1>13 DEF ContentInv, CpuRight
  <2> QED
    BY <1>3, <1>6, <2>1
<1>p. \A u, p : Prefix(u, p)' = Prefix(u, p)
  BY <1>3 DEF Prefix
<1>14. HeldRight'
  <2>1. ASSUME NEW u \in Request, NEW i \in Held(u)', NEW j \in Slots, Pos(i, j) <= Have(u)'
        PROVE  (\/ FinalKv[block_table[u][i]][j] = Prefix(u, Pos(i, j))
                \/ DuePrefill(block_table[u][i], j))'
    <3>1. CASE ~(u = s /\ i = n + 1)
      <4>1. i \in Held(u) /\ block_table'[u][i] = block_table[u][i]
        BY <1>12, <3>1, <2>1
      <4>2. Pos(i, j) <= Have(u)
        BY <1>9, <1>11, <2>1
      <4>3. Prefix(u, Pos(i, j))' = Prefix(u, Pos(i, j))
        BY <1>3 DEF Prefix, Pos
      <4>4. PICK x : x = block_table[u][i]
        OBVIOUS
      <4>5. DuePrefill(x, j) => DuePrefill(x, j)'
        BY <1>7
      <4>6. HeldRight
        BY DEF ContentInv
      <4>7. x = block_table[u][i] /\ block_table'[u][i] = x
        BY <4>1, <4>4
      <4>8. FinalKv'[x] = FinalKv[x]
        <5>1. x \in BlockId
          BY <1>b, <4>1, <4>4, HeldEntry
        <5>2. x # g
          BY <1>3, <1>b, <4>1, <4>4, NotHeld
        <5> QED
          BY <1>6, <5>1, <5>2
      <4> QED
        BY <4>1, <4>2, <4>3, <4>5, <4>6, <4>7, <4>8, EntryStays
    <3>2. CASE u = s /\ i = n + 1
      <4>1. Pos(n + 1, j) <= SeqLen(s) - 1
        BY <1>11, <2>1, <3>2
      <4>2. FinalKv'[g][j] = Prefix(s, Pos(n + 1, j))
        BY <1>13, <4>1
      <4>3. FinalKv'[g][j] = Prefix(s, Pos(n + 1, j))'
        BY <1>3, <4>2 DEF Prefix, Pos
      <4>4. g = block_table[s][n + 1]'
        BY <1>12
      <4> QED
        BY <3>2, <4>3, <4>4 DEF Pos
    <3> QED
      BY <3>1, <3>2
  <2> QED
    BY <2>1 DEF HeldRight, Pos
<1>15. LabelsRight'
  <2> SUFFICES ASSUME ~EnableChunkedPrefill, NEW x \in BlockId, NEW j \in Slots,
                      block_hash'[x] # NoHash
               PROVE  FinalKv'[x][j] = SubSeq(block_hash'[x], 1, (Len(block_hash'[x]) - BlockSize) + j)
    BY DEF LabelsRight, LabelPos
  <2>1. /\ block_hash'[g] = NextHash
        /\ \A y \in BlockId \ {g} : block_hash'[y] = block_hash[y]
    BY <1>3, <1>b, LabelEffect
  <2>2. CASE x # g
    <3>1. block_hash'[x] = block_hash[x]
      BY <2>1, <2>2
    <3>2. FinalKv[x][j] = SubSeq(block_hash[x], 1, LabelPos(x, j))
      BY <1>7, <3>1 DEF ContentInv, LabelsRight
    <3> QED
      BY <1>6, <2>2, <3>1, <3>2 DEF LabelPos
  <2>3. CASE x = g
    <3>1. n * BlockSize < SeqLen(s)
      <4>1. n < Len(cpu_block_table[s])
        BY <1>0, <1>1, <1>n, <1>b DEF MethodHasRoom
      <4>2. Len(cpu_block_table[s]) = PagesFor(SeqLen(s) - 1)
        BY <1>3, <1>10, <1>b DEF FitInv, FitsOnCpu, Slotted
      <4>3. SeqLen(s) - 1 \in Nat
        BY <1>10
      <4>4. n * BlockSize < SeqLen(s) - 1
        BY <4>1, <4>2, <4>3, PagesReach
      <4>5. n * BlockSize \in Nat
        BY BlockManagerAssumption
      <4> QED
        BY <1>10, <4>4, <4>5
    <3>2. /\ NextHash = PrefixHash(s, n + 1)
          /\ (n + 1) * BlockSize <= SeqLen(s)
      <4>1. op \in {"allocate", "swap_in"} /\ n = Len(block_table[cur]) /\ n * BlockSize < SeqLen(cur)
        BY <1>0, <1>1, <1>n, <3>1
      <4>2. /\ NextHash # NoHash <=> (n + 1) * BlockSize <= SeqLen(cur)
            /\ NextHash # NoHash => NextHash = PrefixHash(cur, n + 1)
        BY <1>b, <4>1, NextLabel
      <4> QED
        BY <1>1, <2>1, <2>3, <4>2
    <3>3. (n + 1) * BlockSize # SeqLen(s)
      BY <1>3 DEF Good
    <3>4. Pos(n + 1, j) <= SeqLen(s) - 1
      <4>1. Pos(n + 1, j) <= (n + 1) * BlockSize /\ Pos(n + 1, j) \in Nat
            /\ (n + 1) * BlockSize \in Nat
        BY NextPos
      <4> QED
        BY <1>10, <3>2, <3>3, <4>1
    <3>5. FinalKv'[g][j] = Prefix(s, Pos(n + 1, j))
      BY <1>13, <3>4
    <3>6. /\ (Len(PrefixHash(s, n + 1)) - BlockSize) + j = Pos(n + 1, j)
          /\ SubSeq(PrefixHash(s, n + 1), 1, Pos(n + 1, j)) = Prefix(s, Pos(n + 1, j))
      BY <1>b, <3>2, LabelNames
    <3> QED
      BY <2>1, <2>3, <3>2, <3>5, <3>6
  <2> QED
    BY <2>2, <2>3
<1>16. CpuRight'
  <2>1. ASSUME NEW u \in Request, NEW i \in HeldCpu(u)'
        PROVE  i \in HeldCpu(u) /\ cpu_block_table'[u][i] = cpu_block_table[u][i]
    <3>1. CASE u # s
      BY <1>0, <1>1, <1>5, <2>1, <3>1 DEF HeldCpu
    <3>2. CASE u = s /\ cpu_block_table' = [cpu_block_table EXCEPT ![s] = <<>>]
      <4>1. cpu_block_table'[s] = <<>>
        BY <3>2, <1>b DEF TypeOK
      <4>2. DOMAIN <<>> = {}
        OBVIOUS
      <4> QED
        BY <2>1, <3>2, <4>1, <4>2 DEF HeldCpu
    <3>3. CASE u = s /\ cpu_block_table' = cpu_block_table /\ op' = op /\ cur' = cur
      <4>1. i \in DOMAIN cpu_block_table[s] /\ i > Len(block_table'[s])
        BY <1>0, <1>1, <2>1, <3>3 DEF HeldCpu
      <4>2. Len(block_table'[s]) = n + 1
        <5>1. block_table'[s] = Append(block_table[s], g) /\ block_table[s] \in Seq(BlockId)
          BY <1>3, <1>b DEF TypeOK
        <5> QED
          BY <5>1, <1>n, AppendProperties
      <4>3. i \in Nat
        <5>1. cpu_block_table[s] \in Seq(CpuBlockId)
          BY <1>b DEF TypeOK
        <5>2. DOMAIN cpu_block_table[s] = 1 .. Len(cpu_block_table[s])
              /\ Len(cpu_block_table[s]) \in Nat
          BY <5>1, LenProperties
        <5> QED
          BY <4>1, <5>2
      <4>4. i > Len(block_table[s])
        BY <1>n, <4>1, <4>2, <4>3
      <4> QED
        BY <3>3, <4>1, <4>4 DEF HeldCpu
    <3> QED
      BY <1>4, <3>1, <3>2, <3>3
  <2> SUFFICES ASSUME NEW u \in Request, NEW i \in HeldCpu(u)', NEW j \in Slots,
                      Pos(i, j) <= SeqLen(u)' - 1
               PROVE  FinalCpu'[cpu_block_table'[u][i]][j] = Prefix(u, Pos(i, j))'
    BY DEF CpuRight, Pos
  <2>2. i \in HeldCpu(u) /\ cpu_block_table'[u][i] = cpu_block_table[u][i]
    BY <2>1
  <2>3. FinalCpu[cpu_block_table[u][i]][j] = Prefix(u, Pos(i, j))
    BY <1>3, <2>2 DEF ContentInv, CpuRight, SeqLen
  <2> QED
    BY <1>3, <1>6, <2>2, <2>3 DEF Prefix, Pos
<1> QED
  BY <1>14, <1>15, <1>16 DEF ContentInv

(***************************************************************************)
(* One step of swap_out: what the sequence counts on is saved, and nothing *)
(* else on the CPU side changes.                                           *)
(***************************************************************************)
LEMMA SwapOutContent ==
  ASSUME BaseInv, StageInv, TargetsInv, ContentInv, Good', EngineSwapOut
  PROVE  ContentInv'
<1>b. /\ TypeOK /\ CpuInv /\ PlacedInv
  BY ListTypes
<1>0. op = "swap_out" /\ phase = "decode" /\ phase' = phase
  BY MovePlace DEF BaseInv
<1>1. PICK s \in Request : s = cur /\ s \notin Batch
  BY <1>0, CurOutside
<1>2. PICK b \in BlockId, c \in CpuBlockId :
           LET n == Len(cpu_block_table[s])
           IN /\ n \in Nat /\ n + 1 \in Held(s) /\ block_table[s][n + 1] = b
              /\ c = Head(cpu_free_block_ids) /\ cpu_free_block_ids # <<>>
              /\ cpu_block_table' =
                   [cpu_block_table EXCEPT ![s] = Append(cpu_block_table[s], c)]
              /\ cpu_block_table[s] \in Seq(CpuBlockId)
              /\ swap_out_map' = Append(swap_out_map, <<b, c>>)
              /\ \/ UNCHANGED <<block_table, status, op, cur>>
                 \/ /\ block_table' = [block_table EXCEPT ![s] = <<>>]
                    /\ status' = [status EXCEPT ![s] = "swapped"]
                    /\ op' = "idle"
              /\ status[s] = "running"
              /\ UNCHANGED <<token_ids, num_prompt_tokens, placed,
                             scheduled_seqs, block_hash, is_prefill, num_cached_tokens,
                             num_computed_tokens, todo>>
  BY <1>1, SwapOutMove
<1>n. PICK n \in Nat : n = Len(cpu_block_table[s])
  BY <1>2
<1>3. /\ n + 1 \in Held(s) /\ block_table[s][n + 1] = b
      /\ c = Head(cpu_free_block_ids) /\ cpu_free_block_ids # <<>>
      /\ cpu_block_table' = [cpu_block_table EXCEPT ![s] = Append(cpu_block_table[s], c)]
      /\ cpu_block_table[s] \in Seq(CpuBlockId)
      /\ swap_out_map' = Append(swap_out_map, <<b, c>>)
      /\ \/ UNCHANGED <<block_table, status, op, cur>>
         \/ /\ block_table' = [block_table EXCEPT ![s] = <<>>]
            /\ status' = [status EXCEPT ![s] = "swapped"]
            /\ op' = "idle"
      /\ status[s] = "running"
      /\ UNCHANGED <<token_ids, num_prompt_tokens, placed,
                     scheduled_seqs, block_hash, is_prefill, num_cached_tokens,
                     num_computed_tokens, todo>>
  BY <1>2, <1>n
<1>6. /\ FinalCpu'[c] = FinalKv[b]
      /\ \A x \in CpuBlockId : x # c => FinalCpu'[x] = FinalCpu[x]
      /\ FinalKv' = FinalKv
  BY <1>3, FinalSwapOut
<1>4. cpu_block_table'[s] = Append(cpu_block_table[s], c)
      /\ \A u \in Request : u # s => cpu_block_table'[u] = cpu_block_table[u]
  BY <1>3, <1>b DEF TypeOK
<1>5. /\ \A u \in Request : u # s => status'[u] = status[u] /\ block_table'[u] = block_table[u]
      /\ \/ UNCHANGED <<block_table, status, op, cur>>
         \/ block_table'[s] = <<>> /\ op' = "idle" /\ status'[s] = "swapped"
  <2>1. status \in [Request -> {"absent", "waiting", "running", "swapped", "finished"}]
        /\ block_table \in [Request -> Seq(BlockId)]
    BY <1>b DEF TypeOK
  <2> QED
    BY <1>3, <2>1
<1>7. ASSUME NEW u \in Request, NEW i \in Held(u)'
      PROVE  i \in Held(u) /\ block_table'[u][i] = block_table[u][i]
  <2>1. CASE u # s
    BY <1>1, <1>5, <1>7, <2>1 DEF Held
  <2>2. CASE u = s /\ UNCHANGED <<block_table, status, op, cur>>
    <3>1. i \in DOMAIN block_table[s] /\ i > Len(cpu_block_table'[s])
      BY <1>0, <1>1, <1>7, <2>2 DEF Held
    <3>2. Len(cpu_block_table'[s]) = n + 1
      BY <1>3, <1>4, <1>n, AppendProperties
    <3>3. i \in Nat
      <4>1. block_table[s] \in Seq(BlockId)
        BY <1>b DEF TypeOK
      <4>2. DOMAIN block_table[s] = 1 .. Len(block_table[s]) /\ Len(block_table[s]) \in Nat
        BY <4>1, LenProperties
      <4> QED
        BY <3>1, <4>2
    <3>4. i > Len(cpu_block_table[s])
      BY <1>n, <3>1, <3>2, <3>3
    <3> QED
      BY <2>2, <3>1, <3>4 DEF Held
  <2>3. CASE u = s /\ block_table'[s] = <<>>
    <3>1. DOMAIN <<>> = {}
      OBVIOUS
    <3> QED
      BY <1>7, <2>3, <3>1 DEF Held
  <2> QED
    BY <1>5, <2>1, <2>2, <2>3
<1>8. \A u \in Request \ {s} : Held(u)' = Held(u) /\ block_table'[u] = block_table[u]
  BY <1>1, <1>3, <1>4, <1>5 DEF Held
<1>9. \A u \in Request : /\ ~Allocating(u) /\ ~Allocating(u)' /\ ~Prefilling(u) /\ ~Prefilling(u)'
                         /\ Decoding(u)' = Decoding(u) /\ Uncounted(u) = 0 /\ Uncounted(u)' = 0
  BY <1>0, <1>3 DEF Allocating, Prefilling, Decoding, Uncounted, Batch
<1>10. ~placed[s]
  <2>1. AllAwait
    BY <1>0, <1>b DEF PlacedInv, ResumeInv
  <2>2. Resting(s)
    BY <1>0, <1>1, <1>3 DEF Resting, InFlight
  <2> QED
    BY <2>1, <2>2 DEF AllAwait, Awaits
<1>11. ASSUME NEW u \in Request, u # s PROVE Have(u)' = Have(u)
  BY <1>3, <1>5, <1>9, <1>11 DEF Have, SeqLen, is_prefill_finished
<1>12. Have(s) = SeqLen(s) - 1 /\ Have(s)' = SeqLen(s) - 1
  <2>1. Have(s) = SeqLen(s) - 1
    BY <1>3, <1>9, <1>10 DEF Have
  <2>2. status'[s] \in {"running", "swapped"}
    BY <1>3, <1>5
  <2>3. Have(s)' = SeqLen(s)' - 1
    BY <1>3, <2>2, <1>9, <1>10 DEF Have
  <2> QED
    BY <1>3, <2>1, <2>3 DEF SeqLen
<1>13. \A x, j : ~DuePrefill(x, j)
  BY <1>9 DEF DuePrefill
<1>14. ASSUME NEW x, NEW j, DueDecode(x, j) PROVE DueDecode(x, j)'
  <2>1. PICK t \in Request : /\ Decoding(t)
                             /\ \E i \in Held(t) : block_table[t][i] = x /\ Pos(i, j) = SeqLen(t)
    BY <1>14 DEF DueDecode
  <2>2. t # s
    BY <1>1, <2>1 DEF Decoding, Batch
  <2>3. Decoding(t)'
    BY <1>9, <2>1
  <2> QED
    BY <1>3, <1>8, <2>1, <2>2, <2>3 DEF DueDecode, Pos, SeqLen
<1>15. HeldRight'
  <2>1. ASSUME NEW u \in Request, NEW i \in Held(u)', NEW j \in Slots, Pos(i, j) <= Have(u)'
        PROVE  (\/ FinalKv[block_table[u][i]][j] = Prefix(u, Pos(i, j))
                \/ DuePrefill(block_table[u][i], j))'
    <4>1. i \in Held(u) /\ block_table'[u][i] = block_table[u][i]
      BY <1>7, <2>1
    <4>2. Pos(i, j) <= Have(u)
      BY <1>11, <1>12, <2>1
    <4>3. Prefix(u, Pos(i, j))' = Prefix(u, Pos(i, j))
      BY <1>3 DEF Prefix, Pos
    <4>4. PICK x : x = block_table[u][i]
      OBVIOUS
    <4>5. DuePrefill(x, j) => DuePrefill(x, j)'
      BY <1>13
    <4>6. HeldRight
      BY DEF ContentInv
    <4>7. x = block_table[u][i] /\ block_table'[u][i] = x
      BY <4>1, <4>4
    <4>8. FinalKv'[x] = FinalKv[x]
      BY <1>6
    <4> QED
      BY <4>1, <4>2, <4>3, <4>5, <4>6, <4>7, <4>8, EntryStays
  <2> QED
    BY <2>1 DEF HeldRight, Pos
<1>16. LabelsRight'
  BY <1>3, <1>6, <1>13, <1>14 DEF ContentInv, LabelsRight, LabelPos
<1>17. ASSUME NEW u \in Request, NEW i \in HeldCpu(u)', ~(u = s /\ i = n + 1)
       PROVE  /\ i \in HeldCpu(u) /\ cpu_block_table'[u][i] = cpu_block_table[u][i]
              /\ cpu_block_table[u][i] # c
  <2>1. op # "swap_in" /\ op' # "swap_in"
    BY <1>0, <1>5
  <2>2. i \in DOMAIN cpu_block_table'[u] /\ HeldCpu(u) = DOMAIN cpu_block_table[u]
    BY <1>17, <2>1 DEF HeldCpu
  <2>3. i \in DOMAIN cpu_block_table[u] /\ cpu_block_table'[u][i] = cpu_block_table[u][i]
    <3>1. CASE u # s
      BY <1>4, <2>2, <3>1
    <3>2. CASE u = s
      <4>1. DOMAIN Append(cpu_block_table[s], c) = 1 .. n + 1 /\ DOMAIN cpu_block_table[s] = 1 .. n
            /\ \A k \in 1 .. n : Append(cpu_block_table[s], c)[k] = cpu_block_table[s][k]
        <5>1. Append(cpu_block_table[s], c) \in Seq(CpuBlockId)
              /\ Len(Append(cpu_block_table[s], c)) = n + 1
              /\ \A k \in 1 .. n : Append(cpu_block_table[s], c)[k] = cpu_block_table[s][k]
          BY <1>3, <1>n, AppendProperties
        <5> QED
          BY <1>3, <1>n, <5>1, LenProperties
      <4> QED
        BY <1>4, <1>17, <2>2, <3>2, <4>1
    <3> QED
      BY <3>1, <3>2
  <2>4. cpu_block_table[u][i] # c
    <3>1. c \in Range(cpu_free_block_ids)
      <4>1. cpu_free_block_ids \in Seq(CpuBlockId) /\ IsInjective(cpu_free_block_ids)
        BY <1>b DEF TypeOK, CpuInv
      <4> QED
        BY <1>3, <4>1, TailRange
    <3>2. ~CpuOwned(c)
      BY <1>b, <3>1 DEF CpuInv
    <3> QED
      BY <2>2, <2>3, <3>2 DEF CpuOwned
  <2> QED
    BY <2>2, <2>3, <2>4
<1>18. CpuRight'
  <2> SUFFICES ASSUME NEW u \in Request, NEW i \in HeldCpu(u)', NEW j \in Slots,
                      Pos(i, j) <= SeqLen(u)' - 1
               PROVE  FinalCpu'[cpu_block_table'[u][i]][j] = Prefix(u, Pos(i, j))'
    BY DEF CpuRight, Pos
  <2>0. Pos(i, j) <= SeqLen(u) - 1
    BY <1>3 DEF SeqLen
  <2>p. Prefix(u, Pos(i, j))' = Prefix(u, Pos(i, j))
    BY <1>3 DEF Prefix, Pos
  <2>1. CASE ~(u = s /\ i = n + 1)
    <3>1. /\ i \in HeldCpu(u) /\ cpu_block_table'[u][i] = cpu_block_table[u][i]
          /\ cpu_block_table[u][i] # c
      BY <1>17, <2>1
    <3>2. FinalCpu[cpu_block_table[u][i]][j] = Prefix(u, Pos(i, j))
      BY <2>0, <3>1 DEF ContentInv, CpuRight
    <3>3. cpu_block_table[u][i] \in CpuBlockId
      BY <1>b, <3>1, HeldCpuEntry
    <3> QED
      BY <1>6, <2>p, <3>1, <3>2, <3>3
  <2>2. CASE u = s /\ i = n + 1
    <3>1. cpu_block_table'[s][n + 1] = c
      BY <1>3, <1>4, <1>n, AppendProperties
    <3>2. FinalKv[b][j] = Prefix(s, Pos(n + 1, j))
      BY <1>3, <1>12, <1>13, <2>0, <2>2 DEF ContentInv, HeldRight
    <3> QED
      BY <1>6, <2>p, <2>2, <3>1, <3>2
  <2> QED
    BY <2>1, <2>2
<1> QED
  BY <1>15, <1>16, <1>18 DEF ContentInv

\* The slot that a decoding sequence is going to write is in its last block.
LEMMA DueInLast ==
  ASSUME BaseInv, NEW t \in Request, Decoding(t), NEW i \in Held(t), NEW j \in Slots,
         Pos(i, j) = SeqLen(t)
  PROVE  i = Len(block_table[t]) /\ block_table[t][i] = Last(block_table[t])
<1>b. TypeOK /\ FitInv
  BY ListTypes
<1>1. status[t] = "running" /\ placed[t]
  BY DecodingRuns
<1>2. i \in Nat \ {0} /\ i <= Len(block_table[t])
  BY <1>b, HeldEntry
<1>3. SeqLen(t) \in Nat
  BY <1>b DEF TypeOK, SeqLen
<1>4. Len(block_table[t]) = PagesFor(SeqLen(t))
  BY <1>1, <1>b DEF FitInv, FitsOnGpu, Slotted
<1>5. Pos(i, j) <= i * BlockSize /\ i * BlockSize \in Nat
  <2>1. BlockSize \in Nat /\ i \in Nat
    BY <1>2, BlockManagerAssumption
  <2> QED
    BY <1>2, <2>1, PosType
<1>6. ~(i * BlockSize < SeqLen(t))
  BY <1>3, <1>5
<1>7. ~(i < PagesFor(SeqLen(t)))
  BY <1>2, <1>3, <1>6, PagesReach
<1>8. PagesFor(SeqLen(t)) \in Nat
  BY <1>3, PagesReach
<1>9. i = Len(block_table[t])
  BY <1>2, <1>4, <1>7, <1>8
<1> QED
  BY <1>9 DEF Last

(***************************************************************************)
(* A block is copied: the sequence finds in the copy what it had in the    *)
(* shared block, and the others lose nothing.                              *)
(***************************************************************************)
LEMMA DecodeCopyContent ==
  ASSUME BaseInv, StageInv, TargetsInv, TargetsInv', AloneInv, ContentInv, Good', EngineDecode,
         ~UNCHANGED block_table
  PROVE  ContentInv'
<1>b. /\ TypeOK /\ PoolInv
  BY ListTypes
<1>0. /\ op = "idle" /\ phase = "decode" /\ seq \notin Batch
      /\ UNCHANGED <<phase, token_ids, num_prompt_tokens, placed, status, scheduled_seqs,
                        is_prefill, num_cached_tokens, num_computed_tokens, todo,
                        cpu_block_table>>
  BY DecodeMove
<1>1. PICK s \in Request : s = seq
  BY DecodeMove
<1>2. PICK old, new \in BlockId :
                 LET n == Len(block_table[seq])
                 IN /\ n \in Nat \ {0} /\ n \in DOMAIN block_table[seq] /\ n \in Held(seq)
                    /\ old = block_table[seq][n] /\ old = Last(block_table[seq])
                    /\ ref_count[new] = 0 /\ ref_count[old] > 1
                    /\ cow_pairs' = Append(cow_pairs, <<old, new>>)
                    /\ block_table' =
                         [block_table EXCEPT ![seq] = [block_table[seq] EXCEPT ![n] = new]]
                    /\ Label(new, block_hash[old], block_token_ids[old])
                    /\ op' = "may_append"
  BY DecodeMove
<1>n. PICK n \in Nat \ {0} : n = Len(block_table[s])
  BY <1>1, <1>2
<1>3. /\ n \in DOMAIN block_table[s] /\ n \in Held(s) /\ old = block_table[s][n]
      /\ ref_count[new] = 0 /\ ref_count[old] > 1
      /\ cow_pairs' = Append(cow_pairs, <<old, new>>)
      /\ block_table' = [block_table EXCEPT ![s] = [block_table[s] EXCEPT ![n] = new]]
      /\ Label(new, block_hash[old], block_token_ids[old])
      /\ op' = "may_append"
  BY <1>1, <1>2, <1>n
<1>4. /\ FinalKv' = [FinalKv EXCEPT ![new] = FinalKv[old]] /\ FinalCpu' = FinalCpu
  BY <1>3, FinalDecode
<1>5. /\ FinalKv'[new] = FinalKv[old]
      /\ \A x \in BlockId : x # new => FinalKv'[x] = FinalKv[x]
  <2>1. FinalKv \in [BlockId -> Content]
    BY FinalTypes
  <2> QED
    BY <1>4, <2>1
<1>6. /\ block_table'[s] = [block_table[s] EXCEPT ![n] = new]
      /\ \A u \in Request : u # s => block_table'[u] = block_table[u]
  BY <1>3, <1>b DEF TypeOK
<1>7. /\ \A u \in Request : Held(u) = DOMAIN block_table[u] /\ Held(u)' = DOMAIN block_table'[u]
      /\ \A u \in Request : Held(u)' = Held(u) /\ HeldCpu(u)' = HeldCpu(u)
  <2>1. \A u \in Request : Held(u) = DOMAIN block_table[u] /\ Held(u)' = DOMAIN block_table'[u]
    BY <1>0, <1>3 DEF Held
  <2>2. \A u \in Request : DOMAIN block_table'[u] = DOMAIN block_table[u]
    BY <1>6
  <2>3. \A u \in Request : HeldCpu(u)' = HeldCpu(u)
    BY <1>0, <1>3 DEF HeldCpu
  <2> QED
    BY <2>1, <2>2, <2>3
<1>8. ASSUME NEW u \in Request, NEW i \in Held(u)', ~(u = s /\ i = n)
      PROVE  i \in Held(u) /\ block_table'[u][i] = block_table[u][i]
  BY <1>6, <1>7, <1>8
<1>9. /\ block_table'[s][n] = new
  BY <1>3, <1>6
<1>10. \A u \in Request : /\ Allocating(u)' = Allocating(u) /\ ~Prefilling(u) /\ ~Prefilling(u)'
                          /\ Decoding(u)' = Decoding(u) /\ Uncounted(u)' = Uncounted(u)
  BY <1>0, <1>3 DEF Allocating, Prefilling, Decoding, Uncounted, Batch
<1>11. ASSUME NEW u \in Request PROVE Have(u)' = Have(u)
  BY <1>0, <1>10, <1>11 DEF Have, SeqLen, is_prefill_finished
<1>12. \A x, j : ~DuePrefill(x, j)
  BY <1>10 DEF DuePrefill
<1>13. ASSUME NEW x, NEW j, DueDecode(x, j) PROVE DueDecode(x, j)'
  <2>1. PICK t \in Request : /\ Decoding(t)
                             /\ \E i \in Held(t) : block_table[t][i] = x /\ Pos(i, j) = SeqLen(t)
    BY <1>13 DEF DueDecode
  <2>2. t # s
    BY <1>0, <1>1, <2>1 DEF Decoding, Batch
  <2>3. Decoding(t)'
    BY <1>10, <2>1
  <2> QED
    BY <1>0, <1>6, <1>7, <2>1, <2>2, <2>3 DEF DueDecode, Pos, SeqLen
<1>14. ASSUME NEW j \in Slots PROVE ~DueDecode(old, j)
  <2> SUFFICES ASSUME NEW t \in Request, Decoding(t), NEW i \in Held(t),
                      block_table[t][i] = old, Pos(i, j) = SeqLen(t)
               PROVE  FALSE
    BY DEF DueDecode
  <2>1. block_table[t][i] = Last(block_table[t])
    BY <1>14, DueInLast
  <2>2. s = t
    BY <1>3, <2>1 DEF AloneInv
  <2>3. t \in Batch
    BY DEF Decoding, Batch
  <2> QED
    BY <1>0, <1>1, <2>2, <2>3
<1>15. HeldRight'
  <2>1. ASSUME NEW u \in Request, NEW i \in Held(u)', NEW j \in Slots, Pos(i, j) <= Have(u)'
        PROVE  (\/ FinalKv[block_table[u][i]][j] = Prefix(u, Pos(i, j))
                \/ DuePrefill(block_table[u][i], j))'
    <3>2. Pos(i, j) <= Have(u)
      BY <1>11, <2>1
    <3>3. Prefix(u, Pos(i, j))' = Prefix(u, Pos(i, j))
      BY <1>0 DEF Prefix, Pos
    <3>4. CASE ~(u = s /\ i = n)
      <4>1. i \in Held(u) /\ block_table'[u][i] = block_table[u][i]
        BY <1>8, <2>1, <3>4
      <4>4. PICK x : x = block_table[u][i]
        OBVIOUS
      <4>5. DuePrefill(x, j) => DuePrefill(x, j)'
        BY <1>12
      <4>6. HeldRight
        BY DEF ContentInv
      <4>7. x = block_table[u][i] /\ block_table'[u][i] = x
        BY <4>1, <4>4
      <4>8. FinalKv'[x] = FinalKv[x]
        <5>1. x \in BlockId
          BY <1>b, <4>1, <4>4, HeldEntry
        <5>2. x # new
          BY <1>3, <1>b, <4>1, <4>4, NotHeld
        <5> QED
          BY <1>5, <5>1, <5>2
      <4> QED
        BY <4>1, <3>2, <3>3, <4>5, <4>6, <4>7, <4>8, EntryStays
    <3>5. CASE u = s /\ i = n
      <4>1. FinalKv[old][j] = Prefix(s, Pos(n, j))
        BY <1>3, <1>12, <3>2, <3>5 DEF ContentInv, HeldRight
      <4>2. FinalKv'[new][j] = Prefix(s, Pos(n, j))'
        BY <1>5, <3>3, <3>5, <4>1
      <4>3. new = block_table[s][n]'
        BY <1>9
      <4> QED
        BY <3>5, <4>2, <4>3 DEF Pos
    <3> QED
      BY <3>4, <3>5
  <2> QED
    BY <2>1 DEF HeldRight, Pos
<1>16. LabelsRight'
  <2> SUFFICES ASSUME ~EnableChunkedPrefill, NEW x \in BlockId, NEW j \in Slots,
                      block_hash'[x] # NoHash
               PROVE  \/ FinalKv'[x][j] = SubSeq(block_hash'[x], 1, (Len(block_hash'[x]) - BlockSize) + j)
                      \/ DueDecode(x, j)'
    BY DEF LabelsRight, LabelPos
  <2>1. /\ block_hash'[new] = block_hash[old]
        /\ \A y \in BlockId \ {new} : block_hash'[y] = block_hash[y]
    BY <1>3, <1>b, LabelEffect
  <2>2. CASE x # new
    <3>1. block_hash'[x] = block_hash[x]
      BY <2>1, <2>2
    <3>2. FinalKv[x][j] = SubSeq(block_hash[x], 1, LabelPos(x, j)) \/ DueDecode(x, j)
      BY <1>12, <3>1 DEF ContentInv, LabelsRight
    <3>3. DueDecode(x, j) => DueDecode(x, j)'
      BY <1>13
    <3> QED
      BY <1>5, <2>2, <3>1, <3>2, <3>3 DEF LabelPos
  <2>3. CASE x = new
    <3>1. FinalKv[old][j] = SubSeq(block_hash[old], 1, LabelPos(old, j))
      BY <1>12, <1>14, <2>1, <2>3 DEF ContentInv, LabelsRight
    <3> QED
      BY <1>5, <2>1, <2>3, <3>1 DEF LabelPos
  <2> QED
    BY <2>2, <2>3
<1>17. CpuRight'
  <2> SUFFICES ASSUME NEW u \in Request, NEW i \in HeldCpu(u)', NEW j \in Slots,
                      Pos(i, j) <= SeqLen(u)' - 1
               PROVE  FinalCpu'[cpu_block_table'[u][i]][j] = Prefix(u, Pos(i, j))'
    BY DEF CpuRight, Pos
  <2>2. i \in HeldCpu(u) /\ cpu_block_table'[u][i] = cpu_block_table[u][i]
    BY <1>0, <1>7
  <2>3. FinalCpu[cpu_block_table[u][i]][j] = Prefix(u, Pos(i, j))
    BY <1>0, <2>2 DEF ContentInv, CpuRight, SeqLen
  <2> QED
    BY <1>0, <1>4, <2>2, <2>3 DEF Prefix, Pos
<1> QED
  BY <1>15, <1>16, <1>17 DEF ContentInv

(***************************************************************************)
(* One step of may_append: the slot of the new token is due, in a new      *)
(* block or in the last one, and a block that it fills is offered from now *)
(* on.                                                                     *)
(***************************************************************************)
LEMMA DecodeStepContent ==
  ASSUME BaseInv, ContentInv, Good, UNCHANGED engineVars, DecodeStep
  PROVE  ContentInv'
<1>b. /\ TypeOK /\ TypeInv /\ TablesFollowStatus /\ PoolInv /\ FitInv /\ CallPlace /\ QueueType
      /\ CacheInv /\ LabelInv /\ SharedBlocksFull
  BY ListTypes DEF CacheInv, LabelInv
<1>1. op = "may_append" /\ AppendStep /\ error = "none"
  BY DEF DecodeStep, AppendStep, AppendNewBlock, AppendFillsBlock, AppendInside, AppendRaises,
         Appending
<1>2. PICK s \in Request : s = cur
  BY <1>1, <1>b DEF TypeOK
<1>p. /\ phase = "decode" /\ s \notin Batch
      /\ UNCHANGED <<phase, is_prefill, num_computed_tokens, todo>>
  BY <1>1, <1>2, <1>b, CurOutside DEF CallPlace, DecodeStep
<1>3. PICK n \in Nat \ {0} :
        /\ n = Len(block_table[s])
        /\ SeqLen(s) \in Nat \ {0} /\ ~placed[s]
        /\ Remainder = 1 => n * BlockSize = SeqLen(s) - 1
        /\ Remainder = 0 => n * BlockSize = SeqLen(s)
  BY <1>1, <1>2, <1>b, AppendPosition
<1>4. n \in Held(s) /\ last_block(s) = block_table[s][n] /\ last_block(s) \in BlockId
  BY <1>1, <1>3, <1>b, LastHeld
<1>5. /\ UNCHANGED <<token_ids, num_prompt_tokens, status, cpu_block_table, num_cached_tokens>>
      /\ \/ AppendRaises /\ op' = op /\ cur' = cur /\ UNCHANGED <<placed, scheduled_seqs>>
         \/ /\ ~AppendRaises /\ op' = "idle" /\ placed' = [placed EXCEPT ![s] = TRUE]
            /\ scheduled_seqs' = Append(scheduled_seqs, s)
  <2>1. CASE AppendRaises
    <3>1. /\ UNCHANGED <<token_ids, num_prompt_tokens, status, cpu_block_table, num_cached_tokens>>
          /\ op' = op /\ cur' = cur /\ UNCHANGED placed
      BY <2>1 DEF AppendRaises, Raise, seqVars, callVars
    <3> QED
      BY <1>1, <2>1, <3>1 DEF DecodeStep
  <2>2. CASE ~AppendRaises
    <3>1. /\ UNCHANGED <<token_ids, num_prompt_tokens, status, cpu_block_table, num_cached_tokens>>
          /\ op' = "idle" /\ placed' = [placed EXCEPT ![s] = TRUE]
      BY <1>1, <1>2, <2>2 DEF AppendStep, AppendNewBlock, AppendFillsBlock, AppendInside,
                              AppendDone, Return, Call
    <3> QED
      BY <1>1, <1>2, <2>2, <3>1 DEF DecodeStep
  <2> QED
    BY <2>1, <2>2
<1>6. /\ Batch \subseteq Batch' /\ Batch' \subseteq Batch \cup {s}
      /\ ~AppendRaises => s \in Batch'
  <2>1. scheduled_seqs \in Seq(Request)
    BY <1>b DEF QueueType
  <2>2. Range(Append(scheduled_seqs, s)) = Range(scheduled_seqs) \cup {s}
    BY <2>1, RangeAppend
  <2> QED
    BY <1>5, <2>2 DEF Batch
<1>7. /\ \A t \in Request : /\ ~Allocating(t) /\ ~Allocating(t)' /\ ~Prefilling(t) /\ ~Prefilling(t)'
                            /\ Decoding(t) => Decoding(t)'
                            /\ t # s => (Decoding(t)' => Decoding(t))
                            /\ Uncounted(t) = 0 /\ Uncounted(t)' = 0
      /\ ~AppendRaises => Decoding(s)'
      /\ ~Decoding(s)
      /\ AppendRaises => ~Decoding(s)'
  <2>1. op' # "allocate"
    BY <1>1, <1>5
  <2>2. \A t \in Request : /\ ~Allocating(t) /\ ~Allocating(t)' /\ ~Prefilling(t) /\ ~Prefilling(t)'
                           /\ Uncounted(t) = 0 /\ Uncounted(t)' = 0
    BY <1>1, <1>p, <2>1 DEF Allocating, Prefilling, Uncounted
  <2>3. AppendRaises => Batch' = Batch
    BY <1>5 DEF Batch
  <2>4. \A t \in Request : (Decoding(t) <=> t \in Batch) /\ (Decoding(t)' <=> t \in Batch')
    BY <1>p DEF Decoding, Batch
  <2> QED
    BY <2>2, <2>3, <2>4, <1>6, <1>p
<1>8. ASSUME NEW u \in Request PROVE Have(u)' = Have(u)
  <2>t. placed \in [Request -> BOOLEAN]
    BY <1>b DEF TypeOK
  <2>1. CASE AppendRaises
    <3>1. UNCHANGED placed /\ (Decoding(u)' <=> Decoding(u))
      BY <1>5, <1>7, <2>1
    <3> QED
      BY <1>5, <1>7, <1>p, <3>1 DEF Have, SeqLen, is_prefill_finished
  <2>2. CASE ~AppendRaises /\ u # s
    <3>1. placed'[u] = placed[u] /\ (Decoding(u)' <=> Decoding(u))
      BY <1>5, <1>7, <2>2, <2>t
    <3> QED
      BY <1>5, <1>7, <1>p, <3>1 DEF Have, SeqLen, is_prefill_finished
  <2>3. CASE ~AppendRaises /\ u = s
    <3>1. Decoding(s)' /\ ~placed[s]
      BY <1>3, <1>7, <2>3
    <3> QED
      BY <1>5, <1>7, <1>p, <2>3, <3>1 DEF Have, SeqLen
  <2> QED
    BY <2>1, <2>2, <2>3
<1>9. \A u \in Request : HeldCpu(u)' = HeldCpu(u)
  BY <1>1, <1>5 DEF HeldCpu
<1>10. FinalKv' = FinalKv /\ FinalCpu' = FinalCpu
  <2>1. Pending' = Pending
    BY <1>p DEF Pending
  <2> QED
    BY <2>1, FinalSame DEF engineVars
<1>11. /\ \A b, j : ~DuePrefill(b, j)
       /\ \A u \in Request : \A p : Prefix(u, p)' = Prefix(u, p)
  BY <1>5, <1>7 DEF DuePrefill, Prefix
\* The entries that were there.
<1>12. ASSUME UNCHANGED block_table
       PROVE  \A u \in Request : Held(u)' = Held(u)
  BY <1>1, <1>5, <1>12 DEF Held
<1>13. ASSUME UNCHANGED block_table, UNCHANGED block_hash
       PROVE  ContentInv'
  <2>1. ASSUME NEW u \in Request, NEW i \in Held(u)'
        PROVE  /\ i \in Held(u) /\ block_table'[u][i] = block_table[u][i]
               /\ \A j \in Slots : Pos(i, j) <= Have(u)' =>
                    Pos(i, j) <= Have(u) /\ Prefix(u, Pos(i, j))' = Prefix(u, Pos(i, j))
    BY <1>5, <1>8, <1>12, <1>13, <2>1 DEF Prefix, Pos
  <2>2. \A u \in Request : \A i \in HeldCpu(u)' :
           /\ i \in HeldCpu(u) /\ cpu_block_table'[u][i] = cpu_block_table[u][i]
           /\ token_ids'[u] = token_ids[u]
    BY <1>5, <1>9
  <2>3. \A b, j : DuePrefill(b, j) => DuePrefill(b, j)'
    BY <1>11
  <2>4. \A b, j : DueDecode(b, j) => DueDecode(b, j)'
    BY <1>5, <1>7, <1>12, <1>13 DEF DueDecode, Pos, SeqLen
  <2> QED
    BY <1>10, <1>13, <2>1, <2>2, <2>3, <2>4, ContentFrame
<1>14. CASE AppendRaises \/ AppendInside
  <2>1. UNCHANGED <<block_table, block_hash>>
    BY <1>14 DEF AppendRaises, AppendInside, Raise, seqVars, cacheVars
  <2> QED
    BY <1>13, <2>1
<1>15. CpuRight'
  <2> SUFFICES ASSUME NEW u \in Request, NEW i \in HeldCpu(u)', NEW j \in Slots,
                      Pos(i, j) <= SeqLen(u)' - 1
               PROVE  FinalCpu'[cpu_block_table'[u][i]][j] = Prefix(u, Pos(i, j))'
    BY DEF CpuRight, Pos
  <2>2. i \in HeldCpu(u) /\ cpu_block_table'[u][i] = cpu_block_table[u][i]
    BY <1>5, <1>9
  <2>3. FinalCpu[cpu_block_table[u][i]][j] = Prefix(u, Pos(i, j))
    BY <1>5, <2>2 DEF ContentInv, CpuRight, SeqLen
  <2> QED
    BY <1>5, <1>10, <2>2, <2>3 DEF Prefix, Pos
<1>16. Have(s) = SeqLen(s) - 1 /\ Have(s)' = SeqLen(s) - 1
  <2>1. status[s] = "running"
    BY <1>1, <1>2, <1>b DEF TypeInv, MethodHasRoom
  <2>2. Have(s) = SeqLen(s) - 1
    BY <1>3, <1>7, <2>1 DEF Have
  <2> QED
    BY <1>8, <2>2
<1>17. ASSUME NEW u \in Request, NEW i \in Held(u), NEW j \in Slots, NEW x,
              x = block_table[u][i], block_table'[u][i] = x, Pos(i, j) <= Have(u)'
       PROVE  (\/ FinalKv[block_table[u][i]][j] = Prefix(u, Pos(i, j))
               \/ DuePrefill(block_table[u][i], j))'
  <2>1. HeldRight /\ FinalKv'[x] = FinalKv[x] /\ (DuePrefill(x, j) => DuePrefill(x, j)')
    BY <1>10, <1>11 DEF ContentInv
  <2>2. Prefix(u, Pos(i, j))' = Prefix(u, Pos(i, j))
    BY <1>5 DEF Prefix, Pos
  <2>3. Pos(i, j) <= Have(u)
    BY <1>8, <1>17
  <2> QED
    BY <1>17, <2>1, <2>2, <2>3, EntryStays
<1>18. CASE AppendFillsBlock
  <2> DEFINE h == compute_hash(AppendTokens(s), AppendPrefix(s))
  <2>1. /\ Remainder = 0 /\ Label(last_block(s), h, AppendTokens(s)) /\ UNCHANGED block_table
        /\ ~AppendRaises
    <3>1. /\ Remainder = 0 /\ Label(last_block(s), h, AppendTokens(s)) /\ UNCHANGED block_table
          /\ error' = error
      BY <1>2, <1>18 DEF AppendFillsBlock, AppendDone, AppendTokens, AppendPrefix
    <3> QED
      BY <1>1, <3>1 DEF AppendRaises, Raise
  <2>2. h = PrefixHash(s, n)
    BY <1>1, <1>2, <1>3, <1>b, <2>1, AppendChain DEF Good
  <2> HIDE DEF h
  <2>3. PICK last \in BlockId : last = block_table[s][n]
    BY <1>4
  <2>4. /\ block_hash'[last] = PrefixHash(s, n)
        /\ \A y \in BlockId \ {last} : block_hash'[y] = block_hash[y]
    <3>1. Label(last, h, AppendTokens(s))
      BY <1>4, <2>1, <2>3
    <3>2. block_hash'[last] = h /\ \A y \in BlockId \ {last} : block_hash'[y] = block_hash[y]
      BY <1>b, <3>1, LabelEffect
    <3> QED
      BY <2>2, <3>2
  <2>5. n * BlockSize = SeqLen(s)
    BY <1>3, <2>1
  <2>h. \A u \in Request : Held(u)' = Held(u)
    BY <1>12, <2>1
  <2>6. HeldRight'
    <3>1. ASSUME NEW u \in Request, NEW i \in Held(u)', NEW j \in Slots, Pos(i, j) <= Have(u)'
          PROVE  (\/ FinalKv[block_table[u][i]][j] = Prefix(u, Pos(i, j))
                  \/ DuePrefill(block_table[u][i], j))'
      <4>1. PICK x : x = block_table[u][i]
        OBVIOUS
      <4>2. i \in Held(u) /\ block_table'[u][i] = x
        BY <2>1, <2>h, <3>1, <4>1
      <4> QED
        BY <3>1, <4>1, <4>2, <1>17
    <3> QED
      BY <3>1 DEF HeldRight, Pos
  <2>7. ASSUME NEW x, NEW j, DueDecode(x, j) PROVE DueDecode(x, j)'
    BY <1>5, <1>7, <2>1, <2>h, <2>7 DEF DueDecode, Pos, SeqLen
  <2>8. LabelsRight'
    <3> SUFFICES ASSUME ~EnableChunkedPrefill, NEW x \in BlockId, NEW j \in Slots,
                        block_hash'[x] # NoHash
                 PROVE  \/ FinalKv'[x][j] = SubSeq(block_hash'[x], 1, (Len(block_hash'[x]) - BlockSize) + j)
                        \/ DueDecode(x, j)'
      BY DEF LabelsRight, LabelPos
    <3>1. CASE x # last
      <4>1. block_hash'[x] = block_hash[x]
        BY <2>4, <3>1
      <4>2. FinalKv[x][j] = SubSeq(block_hash[x], 1, LabelPos(x, j)) \/ DueDecode(x, j)
        BY <1>11, <4>1 DEF ContentInv, LabelsRight
      <4> QED
        BY <1>10, <2>7, <4>1, <4>2 DEF LabelPos
    <3>2. CASE x = last
      <4>1. PICK m \in Nat : m = n - 1 /\ n = m + 1
        BY <1>3
      <4>2. (m + 1) * BlockSize <= SeqLen(s)
        BY <1>3, <2>5, <4>1
      <4>3. /\ (Len(PrefixHash(s, n)) - BlockSize) + j = Pos(n, j)
            /\ SubSeq(PrefixHash(s, n), 1, Pos(n, j)) = Prefix(s, Pos(n, j))
        <5>1. /\ (Len(PrefixHash(s, m + 1)) - BlockSize) + j = Pos(m + 1, j)
              /\ SubSeq(PrefixHash(s, m + 1), 1, Pos(m + 1, j)) = Prefix(s, Pos(m + 1, j))
          BY <1>b, <4>2, LabelNames
        <5> QED
          BY <4>1, <5>1
      <4>4. Pos(n, j) \in Nat /\ Pos(n, j) <= SeqLen(s)
        BY <1>3, <2>5, PosType
      <4>5. CASE Pos(n, j) <= SeqLen(s) - 1
        <5>1. FinalKv[last][j] = Prefix(s, Pos(n, j))
          BY <1>4, <1>11, <1>16, <2>3, <4>5 DEF ContentInv, HeldRight
        <5> QED
          BY <1>10, <2>4, <3>2, <4>3, <5>1
      <4>6. CASE Pos(n, j) = SeqLen(s)
        <5>1. Decoding(s)' /\ n \in Held(s)' /\ block_table'[s][n] = last
          BY <1>4, <1>7, <2>1, <2>3, <2>h
        <5>2. Pos(n, j) = SeqLen(s)'
          BY <1>5, <4>6 DEF SeqLen
        <5> QED
          BY <3>2, <5>1, <5>2 DEF DueDecode, Pos
      <4> QED
        BY <1>3, <4>4, <4>5, <4>6
    <3> QED
      BY <3>1, <3>2
  <2> QED
    BY <1>15, <2>6, <2>8 DEF ContentInv
<1>19. CASE AppendNewBlock
  <2>1. /\ Remainder = 1
        /\ \E b \in BlockId : /\ b = Head(free_block_ids) /\ ref_count[b] = 0
                              /\ block_table' = [block_table EXCEPT ![s] = Append(block_table[s], b)]
                              /\ Label(b, NoHash, <<>>)
        /\ op' = "idle" /\ error' = error
    BY <1>2, <1>19, <1>b, HeadUncounted DEF AppendNewBlock, AppendDone, Return, Call
  <2>2. PICK b \in BlockId : /\ ref_count[b] = 0
                             /\ block_table' = [block_table EXCEPT ![s] = Append(block_table[s], b)]
                             /\ Label(b, NoHash, <<>>)
    BY <2>1
  <2>3. /\ block_table'[s][n + 1] = b
        /\ \A u \in Request : \A i \in Held(u)' : ~ (u = s /\ i = n + 1) =>
             i \in Held(u) /\ block_table'[u][i] = block_table[u][i]
    <3>1. op # "swap_out" /\ op' # "swap_out"
      BY <1>1, <2>1
    <3>2. block_table' = [block_table EXCEPT ![s] = Append(block_table[s], b)]
      BY <2>2
    <3>3. block_table'[s][Len(block_table[s]) + 1] = b
      BY <1>b, <3>1, <3>2, GrownTable
    <3>4. \A u \in Request : \A i \in Held(u)' : ~ (u = s /\ i = Len(block_table[s]) + 1) =>
            i \in Held(u) /\ block_table'[u][i] = block_table[u][i]
      BY <1>b, <3>1, <3>2, GrownHeld
    <3> QED
      BY <1>3, <3>3, <3>4
  <2>4. /\ block_hash'[b] = NoHash
        /\ \A y \in BlockId \ {b} : block_hash'[y] = block_hash[y]
    BY <1>b, <2>2, LabelEffect
  <2>5. ~AppendRaises
    BY <1>1, <2>1 DEF AppendRaises, Raise
  <2>6. HeldRight'
    <3>1. ASSUME NEW u \in Request, NEW i \in Held(u)', NEW j \in Slots, Pos(i, j) <= Have(u)'
          PROVE  (\/ FinalKv[block_table[u][i]][j] = Prefix(u, Pos(i, j))
                  \/ DuePrefill(block_table[u][i], j))'
      <4>1. CASE ~(u = s /\ i = n + 1)
        <5>1. PICK x : x = block_table[u][i]
          OBVIOUS
        <5>2. i \in Held(u) /\ block_table'[u][i] = x
          BY <2>3, <3>1, <4>1, <5>1
        <5> QED
          BY <3>1, <5>1, <5>2, <1>17
      <4>2. CASE u = s /\ i = n + 1
        <5>1. n * BlockSize = SeqLen(s) - 1
          BY <1>3, <2>1
        <5>2. n * BlockSize < Pos(n + 1, j) /\ n * BlockSize \in Nat /\ Pos(n + 1, j) \in Nat
          BY <1>3, NextPos
        <5>3. Pos(n + 1, j) <= SeqLen(s) - 1
          BY <1>16, <3>1, <4>2
        <5> QED
          BY <1>3, <5>1, <5>2, <5>3
      <4> QED
        BY <4>1, <4>2
    <3> QED
      BY <3>1 DEF HeldRight, Pos
  <2>7. ASSUME NEW x, NEW j, DueDecode(x, j) PROVE DueDecode(x, j)'
    <3>1. PICK t \in Request : /\ Decoding(t)
                               /\ \E i \in Held(t) : block_table[t][i] = x /\ Pos(i, j) = SeqLen(t)
      BY <2>7 DEF DueDecode
    <3>2. t # s /\ Decoding(t)'
      BY <1>7, <3>1
    <3>3. block_table'[t] = block_table[t]
      BY <1>b, <2>2, <3>2 DEF TypeOK
    <3>4. Held(t)' = Held(t)
      BY <1>1, <2>1, <3>3 DEF Held
    <3> QED
      BY <1>5, <3>1, <3>2, <3>3, <3>4 DEF DueDecode, Pos, SeqLen
  <2>8. LabelsRight'
    <3> SUFFICES ASSUME ~EnableChunkedPrefill, NEW x \in BlockId, NEW j \in Slots,
                        block_hash'[x] # NoHash
                 PROVE  \/ FinalKv'[x][j] = SubSeq(block_hash'[x], 1, (Len(block_hash'[x]) - BlockSize) + j)
                        \/ DueDecode(x, j)'
      BY DEF LabelsRight, LabelPos
    <3>1. x # b
      BY <2>4
    <3>2. block_hash'[x] = block_hash[x]
      BY <2>4, <3>1
    <3>3. FinalKv[x][j] = SubSeq(block_hash[x], 1, LabelPos(x, j)) \/ DueDecode(x, j)
      BY <1>11, <3>2 DEF ContentInv, LabelsRight
    <3> QED
      BY <1>10, <2>7, <3>2, <3>3 DEF LabelPos
  <2> QED
    BY <1>15, <2>6, <2>8 DEF ContentInv
<1> QED
  BY <1>1, <1>14, <1>18, <1>19 DEF AppendStep

-----------------------------------------------------------------------------
(* What a batch leaves in the cache.                                       *)

\* What is found in a slot that is written.
LEMMA StoredIs ==
  ASSUME BaseInv, Calling("run"), SlotsMatchQueries,
         NEW b \in BlockId, NEW j \in Slots, WritesTo(b, j) # {}
  PROVE  \E t \in Request : \E p \in Nat \ {0} :
           /\ t \in Batch /\ p \in Queries(t) /\ Entry(p) \in Held(t)
           /\ block_table[t][Entry(p)] = b /\ Pos(Entry(p), j) = p
           /\ Stored[b][j] = Prefix(t, p)
<1>b. ClientInv /\ FitInv /\ LengthInv /\ FlightInv /\ CachedInv /\ TypeOK
  BY ListTypes DEF PlacedInv
<1>1. PICK w \in WritesTo(b, j) : Stored[b][j] = w[2]
  BY DEF Stored
<1>2. w \in Writes /\ w[1] = <<b, j>>
  BY DEF WritesTo
<1>3. PICK t \in Batch : \E p \in Queries(t) :
           /\ t \in Request /\ p \in 1 .. SeqLen(t) /\ Entry(p) \in Held(t)
           /\ w = <<<<block_table[t][Entry(p)], Place(p)>>, Prefix(t, p)>>
  BY <1>b, <1>2, WriteIs
<1>4. PICK p \in Queries(t) :
           /\ t \in Request /\ p \in 1 .. SeqLen(t) /\ Entry(p) \in Held(t)
           /\ w = <<<<block_table[t][Entry(p)], Place(p)>>, Prefix(t, p)>>
  BY <1>3
<1>5. p \in Nat \ {0}
  <2>1. SeqLen(t) \in Nat
    BY <1>b, <1>4 DEF TypeOK, SeqLen
  <2> QED
    BY <1>4, <2>1
<1>6. Pos(Entry(p), Place(p)) = p
  BY <1>5, PosIs
<1>7. block_table[t][Entry(p)] = b /\ Place(p) = j /\ w[2] = Prefix(t, p)
  BY <1>2, <1>4
<1> QED
  BY <1>1, <1>4, <1>5, <1>6, <1>7

\* The slot of a query is written.
LEMMA QueryWritten ==
  ASSUME BaseInv, Calling("run"), SlotsMatchQueries,
         NEW t \in Batch, NEW i \in Held(t), NEW j \in Slots, Pos(i, j) \in Queries(t)
  PROVE  WritesTo(block_table[t][i], j) # {}
<1>b. ClientInv /\ FitInv /\ LengthInv /\ FlightInv /\ CachedInv /\ TypeOK
  BY ListTypes DEF PlacedInv
<1>0. t \in Request
  BY <1>b, QueriesWithin DEF Calling
<1>1. i \in Nat \ {0}
  BY <1>0, <1>b, HeldEntry
<1>2. Entry(Pos(i, j)) = i /\ Place(Pos(i, j)) = j
  BY <1>1, PosPlace
<1>3. PICK p \in Queries(t) : p = Pos(i, j)
  OBVIOUS
<1>4. (IF is_prefill THEN PrefillSlot(t, p) ELSE DecodeSlot(t)) = <<block_table[t][Entry(p)], Place(p)>>
  BY <1>b, SlotOfQuery
<1>5. <<IF is_prefill THEN PrefillSlot(t, p) ELSE DecodeSlot(t), Prefix(t, p)>> \in Writes
  BY DEF Writes
<1>6. <<<<block_table[t][i], j>>, Prefix(t, p)>> \in Writes
  BY <1>2, <1>3, <1>4, <1>5
<1> QED
  BY <1>6 DEF WritesTo

\* A slot written by anyone is right for everyone who holds the block.
LEMMA StoredHeld ==
  ASSUME BaseInv, BlocksDeterminePrefix, Calling("run"), SlotsMatchQueries,
         NEW s \in Request, NEW i \in Held(s), NEW j \in Slots,
         WritesTo(block_table[s][i], j) # {}
  PROVE  Stored[block_table[s][i]][j] = Prefix(s, Pos(i, j))
<1>b. ManagerInv /\ CacheInv /\ TypeOK
  BY ListTypes
<1>1. i \in Nat \ {0} /\ block_table[s][i] \in BlockId
  BY <1>b, HeldEntry
<1>2. PICK t \in Request : \E p \in Nat \ {0} :
           /\ t \in Batch /\ p \in Queries(t) /\ Entry(p) \in Held(t)
           /\ block_table[t][Entry(p)] = block_table[s][i] /\ Pos(Entry(p), j) = p
           /\ Stored[block_table[s][i]][j] = Prefix(t, p)
  BY <1>1, StoredIs
<1>3. PICK p \in Nat \ {0} :
           /\ Entry(p) \in Held(t)
           /\ block_table[t][Entry(p)] = block_table[s][i] /\ Pos(Entry(p), j) = p
           /\ Stored[block_table[s][i]][j] = Prefix(t, p)
  BY <1>2
<1>4. p <= Entry(p) * BlockSize
  BY PlaceOf
<1>5. Entry(p) = i /\ Prefix(t, p) = Prefix(s, p)
  BY <1>3, <1>4, <1>b, HoldersExpectSame
<1> QED
  BY <1>3, <1>5

\* What the batch is going to write, it writes.
LEMMA DueWritten ==
  ASSUME BaseInv, Calling("run"), SlotsMatchQueries, NEW b, NEW j \in Slots,
         DuePrefill(b, j) \/ DueDecode(b, j)
  PROVE  WritesTo(b, j) # {}
<1>b. TypeOK
  BY ListTypes
<1>1. CASE DuePrefill(b, j)
  <2>1. PICK t \in Request :
               /\ Prefilling(t)
               /\ \E i \in Held(t) : /\ block_table[t][i] = b
                                     /\ num_cached_tokens[t] < Pos(i, j) /\ Pos(i, j) <= SeqLen(t)
    BY <1>1 DEF DuePrefill
  <2>2. PICK i \in Held(t) : /\ block_table[t][i] = b
                             /\ num_cached_tokens[t] < Pos(i, j) /\ Pos(i, j) <= SeqLen(t)
    BY <2>1
  <2>3. t \in Batch /\ is_prefill /\ ~EnableChunkedPrefill
    BY <1>1, <2>1 DEF Prefilling, Calling, Idle, Allocating, DuePrefill
  <2>4. i \in Nat \ {0} /\ num_cached_tokens[t] \in Nat /\ SeqLen(t) \in Nat
    <3>1. i \in Nat \ {0}
      BY <1>b, HeldEntry
    <3> QED
      BY <1>b, <3>1 DEF TypeOK, SeqLen
  <2>5. Pos(i, j) \in Nat \ {0}
    BY <2>4, PosType
  <2>6. Queries(t) = num_cached_tokens[t] + 1 .. num_cached_tokens[t] + (SeqLen(t) - num_cached_tokens[t])
    BY <2>3 DEF Queries, QueryStart, QueryLen, ChunkedBatch
  <2>7. Pos(i, j) \in Queries(t)
    BY <2>2, <2>4, <2>5, <2>6
  <2> QED
    BY <2>2, <2>3, <2>7, QueryWritten
<1>2. CASE DueDecode(b, j)
  <2>1. PICK t \in Request :
               /\ Decoding(t)
               /\ \E i \in Held(t) : block_table[t][i] = b /\ Pos(i, j) = SeqLen(t)
    BY <1>2 DEF DueDecode
  <2>2. PICK i \in Held(t) : block_table[t][i] = b /\ Pos(i, j) = SeqLen(t)
    BY <2>1
  <2>3. t \in Batch /\ ~is_prefill
    BY <2>1 DEF Decoding, Calling, Batch
  <2>4. Pos(i, j) \in Queries(t)
    BY <2>2, <2>3 DEF Queries
  <2> QED
    BY <2>2, <2>3, <2>4, QueryWritten
<1> QED
  BY <1>1, <1>2

\* What attention finds, slot by slot: what was there is right, and so is what is added.
LEMMA StoredRight ==
  ASSUME BaseInv, ContentInv, BlocksDeterminePrefix, Calling("run"), SlotsMatchQueries
  PROVE  /\ \A s \in Request : \A i \in Held(s) : \A j \in Slots :
              Pos(i, j) <= Have(s) \/ (s \in Batch /\ Pos(i, j) \in Queries(s)) =>
                Stored[block_table[s][i]][j] = Prefix(s, Pos(i, j))
         /\ ~EnableChunkedPrefill =>
              \A b \in BlockId : \A j \in Slots :
                block_hash[b] # NoHash =>
                  Stored[b][j] = SubSeq(block_hash[b], 1, LabelPos(b, j))
<1>b. TypeOK /\ CacheInv
  BY ListTypes
<1>0. FinalKv = kv_cache
  BY DEF FinalKv, Calling
<1>1. ASSUME NEW s \in Request, NEW i \in Held(s), NEW j \in Slots,
             Pos(i, j) <= Have(s) \/ (s \in Batch /\ Pos(i, j) \in Queries(s))
      PROVE  Stored[block_table[s][i]][j] = Prefix(s, Pos(i, j))
  <2> DEFINE b == block_table[s][i]
  <2>1. b \in BlockId
    BY <1>b, HeldEntry
  <2>2. CASE WritesTo(b, j) # {}
    BY <2>2, StoredHeld
  <2>3. CASE WritesTo(b, j) = {}
    <3>1. ~DuePrefill(b, j)
      BY <2>3, DueWritten
    <3>2. Pos(i, j) <= Have(s)
      BY <1>1, <2>3, QueryWritten
    <3>3. kv_cache[b][j] = Prefix(s, Pos(i, j))
      BY <1>0, <3>1, <3>2 DEF ContentInv, HeldRight
    <3>4. Stored[b][j] = kv_cache[b][j]
      BY <2>1, <2>3 DEF Stored
    <3> QED
      BY <3>3, <3>4
  <2> QED
    BY <2>2, <2>3
<1>2. ASSUME ~EnableChunkedPrefill, NEW b \in BlockId, NEW j \in Slots, block_hash[b] # NoHash
      PROVE  Stored[b][j] = SubSeq(block_hash[b], 1, LabelPos(b, j))
  <2>1. CASE WritesTo(b, j) = {}
    <3>1. ~DuePrefill(b, j) /\ ~DueDecode(b, j)
      BY <2>1, DueWritten
    <3>2. kv_cache[b][j] = SubSeq(block_hash[b], 1, LabelPos(b, j))
      BY <1>0, <1>2, <3>1 DEF ContentInv, LabelsRight
    <3>3. Stored[b][j] = kv_cache[b][j]
      BY <2>1 DEF Stored
    <3> QED
      BY <3>2, <3>3
  <2>2. CASE WritesTo(b, j) # {}
    <3>1. PICK t \in Request : \E p \in Nat \ {0} :
           /\ Entry(p) \in Held(t)
           /\ block_table[t][Entry(p)] = b /\ Pos(Entry(p), j) = p
           /\ Stored[b][j] = Prefix(t, p)
      BY <2>2, StoredIs
    <3>2. PICK p \in Nat \ {0} :
           /\ Entry(p) \in Held(t)
           /\ block_table[t][Entry(p)] = b /\ Pos(Entry(p), j) = p
           /\ Stored[b][j] = Prefix(t, p)
      BY <3>1
    <3>3. PICK n \in Nat : Entry(p) = n + 1
      <4>1. Entry(p) \in Nat \ {0}
        BY PlaceOf
      <4>2. Entry(p) - 1 \in Nat /\ Entry(p) = (Entry(p) - 1) + 1
        BY <4>1
      <4> QED
        BY <4>2
    <3>4. EntryHash(t, n + 1) # NoHash /\ n + 1 \in Held(t)
      BY <1>2, <3>2, <3>3 DEF EntryHash
    <3>5. (n + 1) * BlockSize <= SeqLen(t) /\ EntryHash(t, n + 1) = PrefixHash(t, n + 1)
      BY <1>b, <3>4, HeldLabel
    <3>6. /\ (Len(PrefixHash(t, n + 1)) - BlockSize) + j = Pos(n + 1, j)
          /\ SubSeq(PrefixHash(t, n + 1), 1, Pos(n + 1, j)) = Prefix(t, Pos(n + 1, j))
      BY <1>b, <3>5, LabelNames
    <3>7. block_hash[b] = PrefixHash(t, n + 1)
      BY <3>2, <3>3, <3>5 DEF EntryHash
    <3>8. Pos(n + 1, j) = p
      BY <3>2, <3>3
    <3> QED
      BY <3>2, <3>6, <3>7, <3>8 DEF LabelPos
  <2> QED
    BY <2>1, <2>2
<1> QED
  BY <1>1, <1>2

(***************************************************************************)
(* The batch is run: all that was due is stored, where it is expected, and *)
(* nothing else is overwritten.                                            *)
(***************************************************************************)
LEMMA RunContent ==
  ASSUME BaseInv, ContentInv, Good, RunModel, phase' \notin Failures
  PROVE  ContentInv'
<1>b. TypeOK /\ QueueType /\ FlightInv /\ BatchInv
  BY ListTypes DEF PlacedInv
<1>1. /\ Calling("run") /\ SlotsMatchQueries /\ todo' = scheduled_seqs
      /\ phase' = IF ChunkedBatch THEN "record" ELSE "postprocess"
      /\ UNCHANGED <<vars, num_computed_tokens, scheduled_seqs, is_prefill>>
      /\ op = "idle" /\ op' = "idle" /\ phase = "run"
  BY DEF RunModel, Run, Goto, Failures, vars, callVars, batchVars, Calling, Idle
<1>2. /\ UNCHANGED <<token_ids, num_prompt_tokens, status, placed, block_table, cpu_block_table,
                     num_cached_tokens, block_hash>>
  BY <1>1 DEF vars, seqVars, cacheVars
<1>3. FinalKv' = Stored /\ FinalCpu' = FinalCpu
  BY FinalRun
<1>4. \A u \in Request : Held(u)' = Held(u) /\ HeldCpu(u)' = HeldCpu(u)
  BY <1>1, <1>2 DEF Held, HeldCpu
<1>5. \A u \in Request : /\ ~Allocating(u) /\ ~Allocating(u)' /\ ~Decoding(u)' /\ ~Prefilling(u)'
                         /\ Uncounted(u) = 0
                         /\ Decoding(u) <=> u \in Batch /\ ~is_prefill
                         /\ Prefilling(u) <=> u \in Batch /\ is_prefill
                         /\ Uncounted(u)' = IF ChunkedBatch /\ u \in Batch THEN RunnerChunk(u) ELSE 0
  <2>1. \A u \in Request : RunnerChunk(u)' = RunnerChunk(u)
    BY <1>1, <1>2 DEF RunnerChunk
  <2>2. phase' = "record" <=> ChunkedBatch
    BY <1>1
  <2>3. phase' \in {"record", "postprocess"}
    BY <1>1
  <2>4. \A u \in Request : Uncounted(u)' = IF ChunkedBatch /\ u \in Batch THEN RunnerChunk(u) ELSE 0
    BY <1>1, <2>1, <2>2 DEF Uncounted, Batch
  <2>5. \A u \in Request : /\ ~Allocating(u) /\ ~Allocating(u)' /\ ~Decoding(u)' /\ ~Prefilling(u)'
    BY <1>1, <2>3 DEF Allocating, Decoding, Prefilling
  <2> QED
    BY <1>1, <2>4, <2>5 DEF Allocating, Decoding, Prefilling, Uncounted
<1>6. ASSUME NEW u \in Request, NEW p \in Nat \ {0}, p <= Have(u)'
      PROVE  p <= Have(u) \/ (u \in Batch /\ p \in Queries(u))
  <2>t. /\ SeqLen(u) \in Nat /\ num_cached_tokens[u] \in Nat /\ num_computed_tokens[u] \in Nat
        /\ num_prompt_tokens[u] \in Nat
    BY <1>b DEF TypeOK, QueueType, SeqLen
  <2>s. SeqLen(u)' = SeqLen(u) /\ is_prefill_finished(u)' = is_prefill_finished(u)
    BY <1>1, <1>2 DEF SeqLen, is_prefill_finished
  <2>1. status[u] \in {"running", "swapped"}
    <3>1. CASE status[u] \notin {"running", "swapped"}
      <4>1. Have(u)' = 0
        BY <1>2, <1>5, <3>1 DEF Have
      <4> QED
        BY <1>6, <4>1
    <3> QED
      BY <3>1
  <2>2. CASE ~placed[u]
    <3>1. Have(u)' = SeqLen(u) - 1 /\ Have(u) = SeqLen(u) - 1
      BY <1>2, <1>5, <2>1, <2>2, <2>s DEF Have
    <3> QED
      BY <1>6, <3>1
  <2>3. CASE placed[u] /\ EnableChunkedPrefill /\ ~is_prefill_finished(u)
    <3>1. Have(u)' = num_computed_tokens[u] + Uncounted(u)'
      BY <1>1, <1>2, <1>5, <2>1, <2>3, <2>s DEF Have
    <3>2. ~Decoding(u)
      BY <1>1, <1>5, <1>b, <2>3 DEF BatchInv, InFlight
    <3>3. Have(u) = num_computed_tokens[u]
      <4>1. Have(u) = num_computed_tokens[u] + 0
        BY <1>5, <2>1, <2>3, <3>2 DEF Have
      <4> QED
        BY <2>t, <4>1
    <3>4. CASE ~(ChunkedBatch /\ u \in Batch)
      BY <1>5, <1>6, <2>t, <3>1, <3>3, <3>4
    <3>5. CASE ChunkedBatch /\ u \in Batch
      <4>1. Queries(u) = num_computed_tokens[u] + 1 .. num_computed_tokens[u] + RunnerChunk(u)
        BY <3>5 DEF Queries, QueryStart, QueryLen, ChunkedBatch
      <4>2. RunnerChunk(u) \in Int
        BY <2>t, SchedulerAssumption DEF RunnerChunk, Least
      <4>3. Have(u)' = num_computed_tokens[u] + RunnerChunk(u)
        BY <1>5, <3>1, <3>5
      <4> QED
        BY <1>6, <2>t, <3>3, <3>5, <4>1, <4>2, <4>3
    <3> QED
      BY <3>4, <3>5
  <2>4. CASE placed[u] /\ ~(EnableChunkedPrefill /\ ~is_prefill_finished(u))
    <3>1. Have(u)' = SeqLen(u)
      BY <1>2, <1>5, <2>1, <2>4, <2>s DEF Have
    <3>2. CASE Decoding(u)
      <4>1. Have(u) = SeqLen(u) - 1
        BY <1>5, <2>1, <3>2 DEF Have
      <4>2. Queries(u) = {SeqLen(u)} /\ u \in Batch
        BY <1>5, <3>2 DEF Queries
      <4> QED
        BY <1>6, <2>t, <3>1, <4>1, <4>2
    <3>3. CASE ~Decoding(u) /\ ~EnableChunkedPrefill /\ Prefilling(u)
      <4>1. Have(u) = num_cached_tokens[u]
        BY <1>5, <2>1, <2>4, <3>3 DEF Have
      <4>2. /\ Queries(u) = num_cached_tokens[u] + 1 .. num_cached_tokens[u] + (SeqLen(u) - num_cached_tokens[u])
            /\ u \in Batch
        BY <1>5, <3>3 DEF Queries, QueryStart, QueryLen, ChunkedBatch
      <4> QED
        BY <1>6, <2>t, <3>1, <4>1, <4>2
    <3>4. CASE ~Decoding(u) /\ ~(~EnableChunkedPrefill /\ Prefilling(u))
      <4>1. Have(u) = SeqLen(u)
        BY <1>5, <2>1, <2>4, <3>4 DEF Have
      <4> QED
        BY <1>6, <3>1, <4>1
    <3> QED
      BY <3>2, <3>3, <3>4
  <2> QED
    BY <2>2, <2>3, <2>4
<1>7. BlocksDeterminePrefix
  BY DEF Good
<1>8. HeldRight'
  <2>1. ASSUME NEW u \in Request, NEW i \in Held(u)', NEW j \in Slots, Pos(i, j) <= Have(u)'
        PROVE  (\/ FinalKv[block_table[u][i]][j] = Prefix(u, Pos(i, j))
                \/ DuePrefill(block_table[u][i], j))'
    <3>1. i \in Held(u) /\ block_table'[u][i] = block_table[u][i]
      BY <1>2, <1>4, <2>1
    <3>2. PICK x : x = block_table[u][i]
      OBVIOUS
    <3>3. Pos(i, j) \in Nat \ {0}
      <4>1. i \in Nat \ {0}
        BY <1>b, <3>1, HeldEntry
      <4> QED
        BY <4>1, PosType
    <3>4. Pos(i, j) <= Have(u) \/ (u \in Batch /\ Pos(i, j) \in Queries(u))
      BY <1>6, <2>1, <3>3
    <3>5. Stored[block_table[u][i]][j] = Prefix(u, Pos(i, j))
      BY <1>1, <1>7, <3>1, <3>4, StoredRight
    <3>6. Prefix(u, Pos(i, j))' = Prefix(u, Pos(i, j))
      BY <1>2 DEF Prefix, Pos
    <3>7. FinalKv'[x][j] = Prefix(u, Pos(i, j))'
      BY <1>3, <3>2, <3>5, <3>6
    <3>8. x = block_table[u][i]'
      BY <3>1, <3>2
    <3> QED
      BY <3>7, <3>8 DEF Pos
  <2> QED
    BY <2>1 DEF HeldRight, Pos
<1>9. LabelsRight'
  <2> SUFFICES ASSUME ~EnableChunkedPrefill, NEW x \in BlockId, NEW j \in Slots,
                      block_hash'[x] # NoHash
               PROVE  FinalKv'[x][j] = SubSeq(block_hash'[x], 1, (Len(block_hash'[x]) - BlockSize) + j)
    BY DEF LabelsRight, LabelPos
  <2>1. block_hash[x] # NoHash /\ block_hash'[x] = block_hash[x]
    BY <1>2
  <2>2. Stored[x][j] = SubSeq(block_hash[x], 1, LabelPos(x, j))
    BY <1>1, <1>7, <2>1, StoredRight
  <2> QED
    BY <1>3, <2>1, <2>2 DEF LabelPos
<1>10. CpuRight'
  <2> SUFFICES ASSUME NEW u \in Request, NEW i \in HeldCpu(u)', NEW j \in Slots,
                      Pos(i, j) <= SeqLen(u)' - 1
               PROVE  FinalCpu'[cpu_block_table'[u][i]][j] = Prefix(u, Pos(i, j))'
    BY DEF CpuRight, Pos
  <2>2. i \in HeldCpu(u) /\ cpu_block_table'[u][i] = cpu_block_table[u][i]
    BY <1>2, <1>4
  <2>3. FinalCpu[cpu_block_table[u][i]][j] = Prefix(u, Pos(i, j))
    BY <1>2, <2>2 DEF ContentInv, CpuRight, SeqLen
  <2> QED
    BY <1>2, <1>3, <2>2, <2>3 DEF Prefix, Pos
<1> QED
  BY <1>8, <1>9, <1>10 DEF ContentInv

-----------------------------------------------------------------------------
(* The invariant, and what it is for.                                      *)

\* Every step keeps the contents right.
LEMMA ContentStep ==
  ASSUME BaseInv, StageInv, MovesInv, TodoInv, CountedInv, ComputedInv, AloneInv, TargetsInv,
         TargetsInv', ContentInv, Good, Good', [EngineNext]_systemVars
  PROVE  ContentInv'
<1>f. phase' \notin Failures
  BY DEF Good
<1>1. CASE UNCHANGED systemVars \/ (ClientStep /\ AllDone)
  <2>1. \/ UNCHANGED systemVars \/ (ClientStep /\ AllDone) \/ EngineSchedule
        \/ CopyKvBlocks \/ SwapBlocksOut \/ SwapBlocksIn
    BY <1>1
  <2> QED
    BY <2>1, CallContent
<1>2. CASE \E s \in Request : Add(s) /\ UNCHANGED engineVars
  BY <1>2, AddContent
<1>3. CASE SchedulerStep
  <2>u. UNCHANGED engineVars
    BY <1>3 DEF SchedulerStep
  <2>1. CASE \/ ResumePrefill \/ ResumeEnd \/ AdmitEnd \/ SwapInEnd \/ PickDecode \/ DecodeEnd
             \/ NothingScheduled \/ RecordEnd \/ PostSkip \/ PostContinue \/ PostEnd
    BY <1>f, <2>1, <2>u, PhaseSteps
  <2>2. CASE Admit
    BY <2>2, <2>u, AdmitContent
  <2>3. CASE AdmitStep
    BY <2>3, <2>u, AdmitStepContent
  <2>4. CASE SwapIn \/ Evict \/ PostFinish
    BY <2>4, <2>u, CallsBegin
  <2>5. CASE DecodeStep
    BY <2>5, <2>u, DecodeStepContent
  <2>6. CASE Record
    BY <2>6, <2>u, RecordContent
  <2>7. CASE \E t \in Token : PostAppend(t)
    BY <2>7, <2>u, PostAppendContent
  <2>8. CASE PostFinishStep
    BY <2>8, <2>u, ReleaseContent
  <2> QED
    BY <1>3, <2>1, <2>2, <2>3, <2>4, <2>5, <2>6, <2>7, <2>8 DEF SchedulerStep
<1>4. CASE EngineSchedule \/ CopyKvBlocks \/ SwapBlocksOut \/ SwapBlocksIn
  BY <1>4, CallContent
<1>5. CASE EngineSwapIn
  BY <1>5, SwapInContent
<1>6. CASE EngineSwapOut
  BY <1>6, SwapOutContent
<1>7. CASE EngineDrop
  <2>1. EngineDrop \/ (PostFinishStep /\ UNCHANGED engineVars)
    BY <1>7
  <2> QED
    BY <2>1, ReleaseContent
<1>8. CASE EngineDecode
  <2>1. CASE ~UNCHANGED block_table
    BY <1>8, <2>1, DecodeCopyContent
  <2>2. CASE UNCHANGED block_table
    <3>1. UNCHANGED <<block_hash, cow_pairs>>
      <4>1. \/ UNCHANGED <<block_hash, cow_pairs>>
            \/ \E old, new \in BlockId :
                 LET n == Len(block_table[seq])
                 IN /\ n \in DOMAIN block_table[seq] /\ old = block_table[seq][n]
                    /\ ref_count[new] = 0 /\ ref_count[old] > 1
                    /\ block_table' =
                         [block_table EXCEPT ![seq] = [block_table[seq] EXCEPT ![n] = new]]
        BY <1>8, DecodeMove
      <4>2. ASSUME NEW old \in BlockId, NEW new \in BlockId, NEW n,
                   n \in DOMAIN block_table[seq], old = block_table[seq][n],
                   ref_count[new] = 0, ref_count[old] > 1,
                   block_table' =
                         [block_table EXCEPT ![seq] = [block_table[seq] EXCEPT ![n] = new]]
            PROVE  FALSE
        <5>1. seq \in Request
          BY <1>8, DecodeMove
        <5>2. block_table \in [Request -> Seq(BlockId)]
          BY ListTypes DEF TypeOK
        <5>3. block_table'[seq][n] = new
          BY <4>2, <5>1, <5>2
        <5>4. block_table'[seq][n] = old
          BY <2>2, <4>2
        <5> QED
          BY <4>2, <5>3, <5>4
      <4> QED
        BY <4>1, <4>2
    <3> QED
      BY <1>8, <2>2, <3>1, DecodeQuiet
  <2> QED
    BY <2>1, <2>2
<1>9. CASE RunModel
  BY <1>9, <1>f, RunContent
<1> QED
  BY <1>1, <1>2, <1>3, <1>4, <1>5, <1>6, <1>7, <1>8, <1>9 DEF EngineNext, Step, ClientStep

\* KvInv is inductive, on top of what is proved of the scheduler.
LEMMA KvStep ==
  ASSUME BaseInv, KvInv, [EngineNext]_systemVars
  PROVE  KvInv'
<1>1. StageInv /\ MovesInv /\ TodoInv /\ CountedInv /\ ComputedInv /\ AloneInv
  BY DEF KvInv
<1>2. PlaceInv
  BY DEF BaseInv
<1>3. StageInv' /\ MovesInv'
  BY <1>1, <1>2, StageStep, MovesStep
<1>4. TodoInv' /\ CountedInv' /\ ComputedInv' /\ AloneInv'
  BY <1>1, TodoStep, CountedStep, ComputedStep, AloneStep
<1>5. ASSUME Good' PROVE FreshInv' /\ ContentInv'
  <2>1. Good
    BY <1>1, <1>5, GoodKept
  <2>2. TargetsInv /\ RoomInv /\ FreshInv /\ ContentInv
    BY <2>1 DEF KvInv, FreshInv
  <2>3. TargetsInv'
    BY <1>1, <1>5, <2>1, <2>2, TargetsStep
  <2>4. RoomInv'
    BY <1>1, <1>5, <2>1, <2>2, RoomKept
  <2>5. ContentInv'
    BY <1>1, <1>5, <2>1, <2>2, <2>3, ContentStep
  <2> QED
    BY <2>3, <2>4, <2>5 DEF FreshInv
<1> QED
  BY <1>3, <1>4, <1>5 DEF KvInv

\* Nothing is held or offered in the beginning.
LEMMA KvInit ==
  ASSUME EngineInit
  PROVE  KvInv
<1>1. /\ phase = "idle" /\ op = "idle" /\ stage = "copy" /\ cur = NoRequest
      /\ \A s \in Request : /\ status[s] = "absent" /\ block_table[s] = <<>>
                            /\ cpu_block_table[s] = <<>> /\ num_computed_tokens[s] = 0
                            /\ num_prompt_tokens[s] = 0 /\ token_ids[s] = <<>>
      /\ \A b \in BlockId : block_hash[b] = NoHash
  BY DEF EngineInit, SchedulerInit, Init
<1>2. StageInv /\ MovesInv /\ TodoInv /\ CountedInv
  BY <1>1 DEF StageInv, MovesInv, TodoInv, CountedInv
<1>3. ComputedInv
  <2>1. \A s \in Request : is_prefill_finished(s)
    BY <1>1 DEF is_prefill_finished
  <2> QED
    BY <1>1, <2>1 DEF ComputedInv
<1>4. AloneInv
  BY <1>1 DEF AloneInv, Decoding
<1>5. FreshInv
  BY <1>1 DEF FreshInv, TargetsInv, RoomInv
<1>6. ContentInv
  <2>1. \A s \in Request : Held(s) = {} /\ HeldCpu(s) = {}
    BY <1>1 DEF Held, HeldCpu
  <2> QED
    BY <1>1, <2>1 DEF ContentInv, HeldRight, LabelsRight, CpuRight
<1> QED
  BY <1>2, <1>3, <1>4, <1>5, <1>6 DEF KvInv

(***************************************************************************)
(* The inductive invariant of the KV data: at every moment of a step the   *)
(* caches, as they will be once the copies and swaps that schedule has     *)
(* listed are made and the batch has stored its tokens, hold for each      *)
(* entry of each page table the keys and values of the sequence's own      *)
(* tokens, and for each block in the prefix cache those that its label     *)
(* names. The bookkeeping of the lists, chunks and swapped-in blocks that  *)
(* this rests on is part of it.                                            *)
(***************************************************************************)
THEOREM KvInvariant == EngineSpec => []KvInv
<1>1. EngineInit => KvInv
  BY KvInit
<1>2. BaseInv /\ KvInv /\ [EngineNext]_systemVars => KvInv'
  BY KvStep
<1> QED
  BY <1>1, <1>2, BaseInvariant, PTL DEF EngineSpec

\* Attention reads positions that were there, or that the batch has just written.
LEMMA ReadsMatch ==
  ASSUME BaseInv, ContentInv, BlocksDeterminePrefix
  PROVE  ReadsRight
<1> SUFFICES ASSUME Calling("run"), SlotsMatchQueries,
                    NEW s \in Batch, Queries(s) # {}, NEW p \in 1 .. ContextLen(s)
             PROVE  KvAt(Stored, s, p) = Prefix(s, p)
  BY DEF ReadsRight
<1>b. TypeOK /\ QueueType /\ FitInv /\ FlightInv /\ LengthInv /\ CachedInv /\ ClientInv
  BY ListTypes DEF PlacedInv
<1>0. phase = "run" /\ op = "idle"
  BY DEF Calling, Idle
<1>1. s \in Request /\ status[s] = "running" /\ placed[s]
  <2>1. s \in InFlight
    BY <1>0 DEF InFlight
  <2>2. s \in Request
    BY <1>b, QueriesWithin, <1>0
  <2> QED
    BY <1>b, <2>1, <2>2 DEF FlightInv
<1>t. /\ SeqLen(s) \in Nat /\ num_cached_tokens[s] \in Nat /\ num_computed_tokens[s] \in Nat
      /\ num_prompt_tokens[s] \in Nat
  BY <1>1, <1>b DEF TypeOK, QueueType, SeqLen
<1>2. p \in 1 .. SeqLen(s) /\ (p <= Have(s) \/ p \in Queries(s))
  <2>0. ~Allocating(s)
    BY <1>0 DEF Allocating
  <2>1. CASE ~is_prefill
    <3>1. Queries(s) = {SeqLen(s)} /\ ContextLen(s) = SeqLen(s)
      BY <2>1 DEF Queries, ContextLen
    <3>2. Have(s) = SeqLen(s) - 1
      BY <1>0, <1>1, <2>0, <2>1 DEF Have, Decoding
    <3> QED
      BY <1>t, <3>1, <3>2
  <2>2. CASE is_prefill /\ ~EnableChunkedPrefill
    <3>1. /\ Queries(s) = num_cached_tokens[s] + 1 .. num_cached_tokens[s] + (SeqLen(s) - num_cached_tokens[s])
          /\ ContextLen(s) = num_cached_tokens[s] + (SeqLen(s) - num_cached_tokens[s])
      BY <2>2 DEF Queries, QueryStart, QueryLen, ChunkedBatch, ContextLen
    <3>2. Have(s) = num_cached_tokens[s]
      BY <1>0, <1>1, <2>0, <2>2 DEF Have, Decoding, Prefilling
    <3> QED
      BY <1>t, <3>1, <3>2
  <2>3. CASE is_prefill /\ EnableChunkedPrefill
    <3>1. /\ Queries(s) = num_computed_tokens[s] + 1 .. num_computed_tokens[s] + RunnerChunk(s)
          /\ ContextLen(s) = num_computed_tokens[s] + RunnerChunk(s)
      BY <2>3 DEF Queries, QueryStart, QueryLen, ChunkedBatch, ContextLen
    <3>2. RunnerChunk(s) \in Int /\ (RunnerChunk(s) > 0 => ~is_prefill_finished(s))
      BY <1>t, SchedulerAssumption DEF RunnerChunk, Least, is_prefill_finished
    <3>3. RunnerChunk(s) > 0
      BY <1>t, <3>1, <3>2
    <3>4. Have(s) = num_computed_tokens[s]
      <4>1. Uncounted(s) = 0 /\ ~Decoding(s)
        BY <1>0, <2>3 DEF Uncounted, Decoding
      <4>2. Have(s) = num_computed_tokens[s] + 0
        BY <1>1, <2>0, <2>3, <3>2, <3>3, <4>1 DEF Have
      <4> QED
        BY <1>t, <4>2
    <3>5. num_computed_tokens[s] + RunnerChunk(s) \in 0 .. num_prompt_tokens[s]
      BY <1>1, <1>b, ChunkWithinPrompt
    <3>6. num_prompt_tokens[s] <= SeqLen(s)
      <4>1. num_completion_tokens(s) \in 0 .. MaxTokens
        BY <1>1, <1>b DEF LengthInv
      <4>2. num_completion_tokens(s) = SeqLen(s) - num_prompt_tokens[s]
        BY DEF num_completion_tokens
      <4>3. MaxTokens \in Nat
        BY BlockManagerAssumption
      <4> QED
        BY <1>t, <4>1, <4>2, <4>3
    <3> QED
      BY <1>t, <3>1, <3>2, <3>4, <3>5, <3>6
  <2> QED
    BY <2>1, <2>2, <2>3
<1>3. p \in Nat \ {0}
  BY <1>2, <1>t
<1>4. Place(p) \in Slots /\ Pos(Entry(p), Place(p)) = p
  BY <1>3, PosIs
<1>5. Entry(p) \in Held(s)
  <2>1. Entry(p) \in 1 .. PagesFor(SeqLen(s))
    BY <1>2, <1>t, EntryReached
  <2>2. Len(block_table[s]) = PagesFor(SeqLen(s))
    BY <1>1, <1>b DEF FitInv, FitsOnGpu, Slotted
  <2>3. block_table[s] \in Seq(BlockId)
    BY <1>1, <1>b DEF TypeOK
  <2>4. DOMAIN block_table[s] = 1 .. Len(block_table[s])
    BY <2>3, LenProperties
  <2> QED
    BY <1>0, <2>1, <2>2, <2>4 DEF Held
<1>6. PICK i \in Held(s), j \in Slots : i = Entry(p) /\ j = Place(p)
  BY <1>4, <1>5
<1>7. Pos(i, j) <= Have(s) \/ (s \in Batch /\ Pos(i, j) \in Queries(s))
  BY <1>2, <1>4, <1>6
<1>8. Stored[block_table[s][i]][j] = Prefix(s, Pos(i, j))
  BY <1>1, <1>7, StoredRight
<1> QED
  BY <1>4, <1>6, <1>8 DEF KvAt, Entry, Place

(***************************************************************************)
(* Attention finds, at every position up to a sequence's context length,   *)
(* the keys and values of that sequence's tokens, in every batch: through  *)
(* blocks shared by prefix, copies on write, swaps and evictions           *)
(* (ReadsOwnTokens: except after a clash of moves, an unfilled block in    *)
(* the prefix cache, or contents that occur under two prefixes).           *)
(***************************************************************************)
THEOREM ReadsAlwaysOwn == EngineSpec => []ReadsOwnTokens
<1>1. BaseInv /\ KvInv => ReadsOwnTokens
  <2> SUFFICES ASSUME BaseInv, KvInv, ~clashed, ~unstored, BlocksDeterminePrefix
               PROVE  ReadsRight
    BY DEF ReadsOwnTokens
  <2>1. CASE Calling("run")
    <3>1. Good
      BY <2>1 DEF Good, NoClash, Failures, Calling
    <3> QED
      BY <3>1, ReadsMatch DEF KvInv
  <2>2. CASE ~Calling("run")
    BY <2>2 DEF ReadsRight
  <2> QED
    BY <2>1, <2>2
<1> QED
  BY <1>1, BaseInvariant, KvInvariant, PTL

\* Between steps, the lists are done with.
LEMMA SwappedMatch ==
  ASSUME BaseInv, Good => ContentInv
  PROVE  SwappedKvKept
<1> SUFFICES ASSUME phase = "idle", Idle, ~clashed, ~unstored, BlocksDeterminePrefix,
                    NEW s \in Request, status[s] = "swapped", NEW p \in 1 .. SeqLen(s) - 1
             PROVE  cpu_kv_cache[cpu_block_table[s][Entry(p)]][Place(p)] = Prefix(s, p)
  BY DEF SwappedKvKept, Entry, Place
<1>b. TypeOK /\ FitInv /\ FlightInv
  BY ListTypes DEF PlacedInv
<1>1. ContentInv /\ FinalCpu = cpu_kv_cache
  BY DEF Good, NoClash, Pending, Failures, FinalCpu
<1>t. SeqLen(s) \in Nat
  BY <1>b DEF TypeOK, SeqLen
<1>2. p \in Nat \ {0} /\ SeqLen(s) - 1 \in Nat
  BY <1>t
<1>3. Place(p) \in Slots /\ Pos(Entry(p), Place(p)) = p
  BY <1>2, PosIs
<1>4. Entry(p) \in HeldCpu(s)
  <2>1. Entry(p) \in 1 .. PagesFor(SeqLen(s) - 1)
    BY <1>2, EntryReached
  <2>2. Len(cpu_block_table[s]) = PagesFor(SeqLen(s) - 1)
    BY <1>b DEF FitInv, FitsOnCpu, Slotted, FlightInv, Awaits
  <2>3. cpu_block_table[s] \in Seq(CpuBlockId)
    BY <1>b DEF TypeOK
  <2>4. DOMAIN cpu_block_table[s] = 1 .. Len(cpu_block_table[s])
    BY <2>3, LenProperties
  <2> QED
    BY <2>1, <2>2, <2>4 DEF HeldCpu, Idle
<1>5. PICK i \in HeldCpu(s), j \in Slots : i = Entry(p) /\ j = Place(p)
  BY <1>3, <1>4
<1>6. Pos(i, j) <= SeqLen(s) - 1
  BY <1>3, <1>5
<1>7. FinalCpu[cpu_block_table[s][i]][j] = Prefix(s, Pos(i, j))
  BY <1>1, <1>6 DEF ContentInv, CpuRight
<1> QED
  BY <1>1, <1>3, <1>5, <1>7

(***************************************************************************)
(* What preempt promises of a swap to the CPU: the KV cache of a sequence  *)
(* that is swapped out is kept in CPU memory, all of it but the token      *)
(* sampled last, until it is swapped in (SwappedKvKept, with the same      *)
(* exceptions).                                                            *)
(***************************************************************************)
THEOREM SwappedAlwaysKept == EngineSpec => []SwappedKvKept
<1>1. BaseInv /\ KvInv => SwappedKvKept
  BY SwappedMatch DEF KvInv
<1> QED
  BY <1>1, BaseInvariant, KvInvariant, PTL

=============================================================================
