------------------------- MODULE BlockManagerProofs -------------------------
(***************************************************************************)
(* Types, reference counts and the partition of the pool of BlockManager,  *)
(* page tables that fit their tokens, CPU blocks with one owner, and the   *)
(* step from its queue and counters to PagePool; then the prefix cache:    *)
(* which blocks carry a label, what the label says of the sequences that   *)
(* hold the block, and that a new token is only written where nobody else  *)
(* reads.  All of it for every set of requests and every size of the       *)
(* pools.                                                                  *)
(***************************************************************************)
EXTENDS BlockManager, TLAPS, SequenceTheorems, FiniteSetTheorems,
        WellFoundedInduction

-----------------------------------------------------------------------------
(* Lemmas about the operators of SequencesExt that the model uses.         *)

(***************************************************************************)
(* A non-empty set of numbers has a minimum.                               *)
(***************************************************************************)
LEMMA MinInSet ==
  ASSUME NEW I \in SUBSET Nat, I # {}
  PROVE  Min(I) \in I
<1>1. IsWellFoundedOn(OpToRel(<, Nat), Nat)
  BY NatLessThanWellFounded
<1>2. PICK x \in I : \A y \in I : ~ (<<y, x>> \in OpToRel(<, Nat))
  BY <1>1, WFMin
<1>3. \A y \in I : x <= y
  <2> TAKE y \in I
  <2>1. <<y, x>> \in Nat \X Nat
    OBVIOUS
  <2>2. ~ (y < x)
    BY <1>2, <2>1 DEF OpToRel
  <2> QED
    BY <2>2
<1> QED
  BY <1>3 DEF Min

(***************************************************************************)
(* deque.remove takes out at most one element.                             *)
(***************************************************************************)
LEMMA RemoveFirstType ==
  ASSUME NEW S, NEW s \in Seq(S), NEW e
  PROVE  /\ RemoveFirst(s, e) \in Seq(S)
         /\ Len(RemoveFirst(s, e)) >= Len(s) - 1
<1>1. CASE \E i \in 1 .. Len(s) : s[i] = e
  <2> DEFINE I == {i \in 1 .. Len(s) : s[i] = e}
  <2>1. Min(I) \in 1 .. Len(s)
    <3>1. Len(s) \in Nat
      BY LenProperties
    <3>2. I \in SUBSET Nat /\ I # {} /\ I \subseteq 1 .. Len(s)
      BY <1>1, <3>1
    <3> HIDE DEF I
    <3> QED
      BY <3>2, MinInSet
  <2>2. RemoveFirst(s, e) = SubSeq(s, 1, Min(I) - 1) \o SubSeq(s, Min(I) + 1, Len(s))
    BY <1>1 DEF RemoveFirst, RemoveAt, SelectInSeq
  <2> HIDE DEF I
  <2>3. /\ SubSeq(s, 1, Min(I) - 1) \in Seq(S)
        /\ Len(SubSeq(s, 1, Min(I) - 1)) = Min(I) - 1
    BY <2>1, SubSeqProperties, ElementOfSeq
  <2>4. /\ SubSeq(s, Min(I) + 1, Len(s)) \in Seq(S)
        /\ Len(SubSeq(s, Min(I) + 1, Len(s))) = Len(s) - Min(I)
    BY <2>1, SubSeqProperties, ElementOfSeq
  <2> QED
    BY <2>1, <2>2, <2>3, <2>4, ConcatProperties
<1>2. CASE ~ \E i \in 1 .. Len(s) : s[i] = e
  BY <1>2 DEF RemoveFirst
<1> QED
  BY <1>1, <1>2

-----------------------------------------------------------------------------
(* The inductive invariant behind type correctness.                        *)

(***************************************************************************)
(* Where the page table of a sequence is, by its status; the sequence of   *)
(* the method in execution may be half way.                                *)
(***************************************************************************)
TablesFollowStatus ==
  \A s \in Request :
    /\ status[s] \in {"absent", "waiting", "finished", "swapped"} /\ cur # s
         => block_table[s] = <<>>
    /\ status[s] \in {"absent", "waiting", "finished", "running"} /\ cur # s
         => cpu_block_table[s] = <<>>
    /\ status[s] = "running" => block_table[s] # <<>>
    /\ status[s] = "swapped" => cpu_block_table[s] # <<>>
    /\ status[s] # "absent" => token_ids[s] # <<>>

(***************************************************************************)
(* The loops have work left, and enough free blocks for what is left: the  *)
(* test made before the call stays good until the method returns.          *)
(***************************************************************************)
MethodHasRoom ==
  /\ op = "allocate" =>
       /\ status[cur] = "waiting"
       /\ cpu_block_table[cur] = <<>>
       /\ Len(block_table[cur]) < num_blocks(cur)
       /\ num_blocks(cur) <= Len(block_table[cur]) + Len(free_block_ids)
  /\ op = "deallocate" =>
       /\ status[cur] \in {"finished", "waiting"}
       /\ cpu_block_table[cur] = <<>>
       /\ block_table[cur] # <<>>
  /\ op = "swap_out" =>
       /\ status[cur] = "running"
       /\ Len(cpu_block_table[cur]) < Len(block_table[cur])
       /\ Len(block_table[cur]) <= Len(cpu_block_table[cur]) + Len(cpu_free_block_ids)
  /\ op = "swap_in" =>
       /\ status[cur] = "swapped"
       /\ Len(block_table[cur]) < Len(cpu_block_table[cur])
       /\ Len(cpu_block_table[cur]) <= Len(block_table[cur]) + Len(free_block_ids)
  /\ op = "may_append" =>
       /\ status[cur] = "running"
       /\ cpu_block_table[cur] = <<>>

TypeInv == TypeOK /\ TablesFollowStatus /\ MethodHasRoom

-----------------------------------------------------------------------------
(* Types of the operators that the actions are built from.                 *)

(***************************************************************************)
(* A block of a sequence is a sequence of tokens.                          *)
(***************************************************************************)
LEMMA BlockType ==
  ASSUME TypeOK, NEW s \in Request, NEW i \in Nat \ {0}
  PROVE  block(s, i) \in Seq(Token)
<1> USE BlockManagerAssumption
<1> DEFINE first == (i - 1) * BlockSize + 1
           last  == IF i * BlockSize <= SeqLen(s) THEN i * BlockSize ELSE SeqLen(s)
<1>1. token_ids[s] \in Seq(Token)
  BY DEF TypeOK
<1>2. SeqLen(s) \in Nat
  BY <1>1, LenProperties DEF SeqLen
<1>3. /\ first \in Int
      /\ first >= 1
      /\ last \in Int
      /\ last <= SeqLen(s)
  <2>1. (i - 1) * BlockSize \in Nat
    OBVIOUS
  <2>2. i * BlockSize \in Nat
    OBVIOUS
  <2> QED
    BY <2>1, <2>2, <1>2
<1> HIDE DEF first, last
<1>4. \A j \in first .. last : token_ids[s][j] \in Token
  BY <1>1, <1>3, LenProperties, ElementOfSeq DEF SeqLen
<1>5. SubSeq(token_ids[s], first, last) \in Seq(Token)
  BY <1>3, <1>4, SubSeqProperties
<1> QED
  BY <1>5 DEF block, first, last

(***************************************************************************)
(* So are the contents and the hash of the block the loops work on.        *)
(***************************************************************************)
LEMMA NextBlockType ==
  ASSUME TypeOK, op # "idle"
  PROVE  /\ cur \in Request
         /\ NextTokens \in Seq(Token)
         /\ NextHash \in Seq(Token)
<1>1. cur \in Request
  BY DEF TypeOK
<1>2. block_table[cur] \in Seq(BlockId)
  BY <1>1 DEF TypeOK
<1>3. Len(block_table[cur]) + 1 \in Nat \ {0}
  BY <1>2, LenProperties
<1>4. NextTokens \in Seq(Token)
  BY <1>1, <1>3, BlockType DEF NextTokens
<1>5. NextHash \in Seq(Token)
  BY <1>4, ConcatProperties, EmptySeq DEF NextHash, compute_hash, NoHash, TypeOK
<1> QED
  BY <1>1, <1>4, <1>5

(***************************************************************************)
(* Labelling a block keeps labels and index well typed.                    *)
(***************************************************************************)
LEMMA LabelType ==
  ASSUME TypeOK, NEW b \in BlockId, NEW h \in Seq(Token), NEW tokens \in Seq(Token),
         Label(b, h, tokens)
  PROVE  /\ block_hash' \in [BlockId -> Seq(Token)]
         /\ block_token_ids' \in [BlockId -> Seq(Token)]
         /\ DOMAIN hash_to_block_id' \subseteq Seq(Token)
         /\ hash_to_block_id' \in [DOMAIN hash_to_block_id' -> BlockId]
<1>1. block_hash' \in [BlockId -> Seq(Token)]
  BY DEF TypeOK, Label
<1>2. block_token_ids' \in [BlockId -> Seq(Token)]
  BY EmptySeq DEF TypeOK, Label
<1> DEFINE D == DOMAIN hash_to_block_id \cup ({h} \ {NoHash})
<1>3. hash_to_block_id' = [k \in D |-> IF k = h THEN b ELSE hash_to_block_id[k]]
  BY DEF Label
<1>4. DOMAIN hash_to_block_id' = D
  BY <1>3
<1>5. \A k \in D : (IF k = h THEN b ELSE hash_to_block_id[k]) \in BlockId
  BY DEF TypeOK
<1>6. hash_to_block_id' \in [D -> BlockId]
  BY <1>3, <1>5
<1>7. D \subseteq Seq(Token)
  BY DEF TypeOK
<1> QED
  BY <1>1, <1>2, <1>4, <1>6, <1>7

(***************************************************************************)
(* Taking a block out of the free queue shortens it by one at most.        *)
(***************************************************************************)
LEMMA AllocateBlockType ==
  ASSUME TypeOK, NEW b \in BlockId, allocate_block(b)
  PROVE  /\ ref_count' \in [BlockId -> Int]
         /\ free_block_ids' \in Seq(BlockId)
         /\ used_block_ids' \subseteq BlockId
         /\ Len(free_block_ids') >= Len(free_block_ids) - 1
<1>1. /\ ref_count' \in [BlockId -> Int]
      /\ used_block_ids' \subseteq BlockId
  BY DEF TypeOK, allocate_block
<1>2. free_block_ids \in Seq(BlockId)
  BY DEF TypeOK
<1>3. free_block_ids' = RemoveFirst(free_block_ids, b)
  BY DEF allocate_block
<1> QED
  BY <1>1, <1>2, <1>3, RemoveFirstType

(***************************************************************************)
(* Dropping a reference never shortens the free queue.                     *)
(***************************************************************************)
LEMMA ReleaseBlockType ==
  ASSUME TypeOK, NEW b \in BlockId, ReleaseBlock(b)
  PROVE  /\ ref_count' \in [BlockId -> Int]
         /\ free_block_ids' \in Seq(BlockId)
         /\ used_block_ids' \subseteq BlockId
         /\ Len(free_block_ids') >= Len(free_block_ids)
<1>1. ref_count' \in [BlockId -> Int]
  <2>1. ref_count \in [BlockId -> Int]
    BY DEF TypeOK
  <2>2. ref_count' = [ref_count EXCEPT ![b] = ref_count[b] - 1]
    BY DEF ReleaseBlock
  <2> QED
    BY <2>1, <2>2
<1>2. used_block_ids' \subseteq BlockId
  BY DEF TypeOK, ReleaseBlock
<1>3. free_block_ids \in Seq(BlockId)
  BY DEF TypeOK
<1>4. \/ free_block_ids' = Append(free_block_ids, b)
      \/ free_block_ids' = free_block_ids
  BY DEF ReleaseBlock
<1>5. /\ free_block_ids' \in Seq(BlockId)
      /\ Len(free_block_ids') >= Len(free_block_ids)
  BY <1>3, <1>4, AppendProperties, LenProperties
<1> QED
  BY <1>1, <1>2, <1>5

(***************************************************************************)
(* The first, the last and the other elements of a non-empty sequence.     *)
(***************************************************************************)
LEMMA EndsType ==
  ASSUME NEW S, NEW s \in Seq(S), s # <<>>
  PROVE  /\ Len(s) \in Nat \ {0}
         /\ Head(s) \in S
         /\ Tail(s) \in Seq(S) /\ Len(Tail(s)) = Len(s) - 1
         /\ Last(s) \in S
         /\ Front(s) \in Seq(S) /\ Len(Front(s)) = Len(s) - 1
<1>1. Len(s) \in Nat \ {0}
  BY EmptySeq, LenProperties
<1>2. Front(s) \in Seq(S) /\ Len(Front(s)) = Len(s) - 1
  <2> DEFINE n == Len(s) - 1
  <2>1. n \in Nat
    BY <1>1
  <2>2. \A i \in 1 .. n : s[i] \in S
    BY <1>1, ElementOfSeq
  <2> HIDE DEF n
  <2>3. SubSeq(s, 1, n) \in Seq(S) /\ Len(SubSeq(s, 1, n)) = n
    BY <2>1, <2>2, SubSeqProperties
  <2> QED
    BY <2>3 DEF Front, n
<1>3. Last(s) \in S
  BY <1>1, ElementOfSeq DEF Last
<1> QED
  BY <1>1, <1>2, <1>3, HeadTailProperties

(***************************************************************************)
(* A sequence that has been extended by one element.                       *)
(***************************************************************************)
LEMMA AppendType ==
  ASSUME NEW S, NEW s \in Seq(S), NEW e \in S
  PROVE  /\ Append(s, e) \in Seq(S)
         /\ Append(s, e) # <<>>
         /\ Len(s) \in Nat
         /\ Len(Append(s, e)) = Len(s) + 1
<1>1. Append(s, e) \in Seq(S) /\ Len(Append(s, e)) = Len(s) + 1
  BY AppendProperties
<1>2. Len(s) \in Nat
  BY LenProperties
<1>3. Append(s, e) # <<>>
  BY <1>1, <1>2, EmptySeq
<1> QED
  BY <1>1, <1>2, <1>3

(***************************************************************************)
(* A sequence with tokens needs a block.                                   *)
(***************************************************************************)
LEMMA NumBlocksPositive ==
  ASSUME TypeOK, NEW s \in Request
  PROVE  /\ num_blocks(s) \in Nat
         /\ token_ids[s] # <<>> => num_blocks(s) > 0
<1> USE BlockManagerAssumption
<1>1. SeqLen(s) \in Nat /\ (token_ids[s] # <<>> => SeqLen(s) >= 1)
  BY LenProperties, EmptySeq DEF SeqLen, TypeOK
<1>2. \A m, n \in Nat : n > 0 => (m + n - 1) \div n \in Nat
  OBVIOUS
<1>3. \A m, n \in Nat : n > 0 /\ m >= 1 => (m + n - 1) \div n > 0
  OBVIOUS
<1>4. num_blocks(s) = (SeqLen(s) + BlockSize - 1) \div BlockSize
  BY DEF num_blocks
<1> HIDE DEF num_blocks
<1> QED
  BY <1>1, <1>2, <1>3, <1>4

-----------------------------------------------------------------------------
(* TypeInv is inductive: one lemma for each action.                        *)

LEMMA InitType ==
  ASSUME Init
  PROVE  TypeInv
<1> USE BlockManagerAssumption
<1>1. free_block_ids \in Seq(BlockId)
  <2>1. \A i \in 1 .. NumKvBlocks : i - 1 \in BlockId
    BY DEF BlockId
  <2> QED
    BY <2>1, IsASeq DEF Init
<1>2. cpu_free_block_ids \in Seq(CpuBlockId)
  <2>1. \A i \in 1 .. NumCpuBlocks : i - 1 \in CpuBlockId
    BY DEF CpuBlockId
  <2> QED
    BY <2>1, IsASeq DEF Init
<1>3. /\ hash_to_block_id \in [DOMAIN hash_to_block_id -> BlockId]
      /\ DOMAIN hash_to_block_id \subseteq Seq(Token)
  BY DEF Init
<1>4. /\ block_table \in [Request -> Seq(BlockId)]
      /\ cpu_block_table \in [Request -> Seq(CpuBlockId)]
      /\ block_hash \in [BlockId -> Seq(Token)]
      /\ block_token_ids \in [BlockId -> Seq(Token)]
      /\ token_ids \in [Request -> Seq(Token)]
      /\ chain \in Seq(Token)
  BY EmptySeq DEF Init, NoHash
<1>7. TypeOK
  <2>1. /\ ref_count \in [BlockId -> Int]
        /\ num_prompt_tokens \in [Request -> Nat]
        /\ num_cached_tokens \in [Request -> Nat]
        /\ placed \in [Request -> BOOLEAN]
        /\ status \in [Request -> {"absent", "waiting", "running", "swapped", "finished"}]
    BY DEF Init
  <2>2. /\ used_block_ids \subseteq BlockId
        /\ op \in Methods
        /\ cur \in Request \cup {NoRequest}
        /\ cur = NoRequest <=> op = "idle"
        /\ cache_miss \in BOOLEAN
        /\ error \in Exceptions \cup {"none"}
    BY DEF Init, Methods
  <2> QED
    BY <1>1, <1>2, <1>3, <1>4, <2>1, <2>2 DEF TypeOK
<1>5. TablesFollowStatus
  BY DEF Init, TablesFollowStatus
<1>6. MethodHasRoom
  BY DEF Init, MethodHasRoom
<1> QED
  BY <1>5, <1>6, <1>7 DEF TypeInv

LEMMA NewSequenceType ==
  ASSUME TypeInv, NEW s \in Request, NewSequence(s)
  PROVE  TypeInv'
<1> USE BlockManagerAssumption DEF TypeInv, NewSequence, Idle
<1>1. PICK p \in Prompts : /\ token_ids' = [token_ids EXCEPT ![s] = p]
                           /\ num_prompt_tokens' = [num_prompt_tokens EXCEPT ![s] = Len(p)]
  OBVIOUS
<1>2. p \in Seq(Token) /\ p # <<>> /\ Len(p) \in Nat
  BY LenProperties
<1>3. TypeOK'
  BY <1>1, <1>2 DEF TypeOK, poolVars, cacheVars, callVars
<1>4. TablesFollowStatus'
  BY <1>1, <1>2 DEF TypeOK, TablesFollowStatus, callVars
<1>5. MethodHasRoom'
  BY DEF MethodHasRoom, callVars
<1> QED
  BY <1>3, <1>4, <1>5

LEMMA AppendTokenType ==
  ASSUME TypeInv, NEW s \in Request, NEW t \in Token, append_token(s, t)
  PROVE  TypeInv'
<1> USE DEF TypeInv, append_token, Idle
<1>1. Append(token_ids[s], t) \in Seq(Token) /\ Append(token_ids[s], t) # <<>>
  BY AppendType DEF TypeOK
<1>2. TypeOK'
  BY <1>1 DEF TypeOK, poolVars, cacheVars, callVars
<1>3. TablesFollowStatus'
  BY <1>1 DEF TypeOK, TablesFollowStatus, callVars
<1>4. MethodHasRoom'
  BY DEF MethodHasRoom, callVars
<1> QED
  BY <1>2, <1>3, <1>4

LEMMA RecordComputedType ==
  ASSUME TypeInv, NEW s \in Request, NEW n \in ChunkEnds, RecordComputed(s, n)
  PROVE  TypeInv'
<1> USE DEF TypeInv, RecordComputed, Idle
<1>1. n \in Nat
  BY BlockManagerAssumption
<1>2. TypeOK'
  BY <1>1 DEF TypeOK, seqVars, poolVars, cacheVars, callVars
<1>3. TablesFollowStatus'
  BY DEF TypeOK, TablesFollowStatus, seqVars, callVars
<1>4. MethodHasRoom'
  BY DEF MethodHasRoom, callVars
<1> QED
  BY <1>2, <1>3, <1>4

LEMMA BeginAllocateType ==
  ASSUME TypeInv, NEW s \in Request, BeginAllocate(s)
  PROVE  TypeInv'
<1> USE DEF TypeInv, BeginAllocate, Idle, Call
<1>1. TypeOK'
  BY BlockManagerAssumption, EmptySeq
  DEF TypeOK, seqVars, poolVars, cacheVars, Methods, NoHash
<1>2. TablesFollowStatus'
  BY BlockManagerAssumption DEF TypeOK, TablesFollowStatus, seqVars
<1>3. /\ block_table[s] = <<>>
      /\ cpu_block_table[s] = <<>>
      /\ token_ids[s] # <<>>
  BY BlockManagerAssumption DEF TypeOK, TablesFollowStatus
<1>4. num_blocks(s) \in Nat \ {0} /\ Len(block_table[s]) = 0
  BY <1>3, NumBlocksPositive, EmptySeq
<1>5. Len(free_block_ids) \in Nat /\ Len(free_block_ids) >= num_blocks(s)
  BY LenProperties DEF TypeOK, can_allocate
<1>6. num_blocks(s)' = num_blocks(s)
  BY DEF num_blocks, SeqLen, seqVars
<1>7. MethodHasRoom'
  BY <1>3, <1>4, <1>5, <1>6 DEF MethodHasRoom, seqVars, poolVars
<1> QED
  BY <1>1, <1>2, <1>7

LEMMA BeginFinishType ==
  ASSUME TypeInv, NEW s \in Request, BeginFinish(s)
  PROVE  TypeInv'
<1> USE DEF TypeInv, BeginFinish, Idle, Call
<1>1. TypeOK'
  BY BlockManagerAssumption, EmptySeq
  DEF TypeOK, poolVars, cacheVars, Methods, NoHash
<1>2. \A u \in Request : cur # u
  BY BlockManagerAssumption DEF TypeOK
<1>3. TablesFollowStatus'
  BY <1>2 DEF TypeOK, TablesFollowStatus
<1>4. MethodHasRoom'
  BY <1>2 DEF MethodHasRoom, TypeOK, TablesFollowStatus
<1> QED
  BY <1>1, <1>3, <1>4

LEMMA PreemptType ==
  ASSUME TypeInv, NEW s \in Request, Preempt(s)
  PROVE  TypeInv'
<1> USE DEF TypeInv, Preempt, Idle, Call
<1>1. TypeOK'
  BY BlockManagerAssumption, EmptySeq
  DEF TypeOK, poolVars, cacheVars, Methods, NoHash
<1>2. \A u \in Request : cur # u
  BY BlockManagerAssumption DEF TypeOK
<1>3. block_table[s] # <<>> /\ cpu_block_table[s] = <<>>
  BY <1>2 DEF TablesFollowStatus
<1>4. TablesFollowStatus'
  BY <1>2, <1>3 DEF TypeOK, TablesFollowStatus
<1>5. /\ Len(block_table[s]) \in Nat \ {0}
      /\ Len(cpu_block_table[s]) = 0
  BY <1>3, EndsType, EmptySeq DEF TypeOK
<1>6. MethodHasRoom'
  <2>1. CASE can_swap_out(s) /\ Call("swap_out", s) /\ UNCHANGED status
    BY <2>1, <1>5, LenProperties DEF MethodHasRoom, can_swap_out, TypeOK
  <2>2. CASE Call("deallocate", s) /\ status' = [status EXCEPT ![s] = "waiting"]
    BY <2>2, <1>3 DEF MethodHasRoom, TypeOK
  <2> QED
    BY <2>1, <2>2
<1> QED
  BY <1>1, <1>4, <1>6

LEMMA BeginSwapInType ==
  ASSUME TypeInv, NEW s \in Request, BeginSwapIn(s)
  PROVE  TypeInv'
<1> USE DEF TypeInv, BeginSwapIn, Idle, Call
<1>1. TypeOK'
  BY BlockManagerAssumption, EmptySeq
  DEF TypeOK, seqVars, poolVars, cacheVars, Methods, NoHash
<1>2. \A u \in Request : cur # u
  BY BlockManagerAssumption DEF TypeOK
<1>3. block_table[s] = <<>> /\ cpu_block_table[s] # <<>>
  BY <1>2 DEF TablesFollowStatus
<1>4. TablesFollowStatus'
  BY <1>2 DEF TypeOK, TablesFollowStatus, seqVars
<1>5. /\ Len(cpu_block_table[s]) \in Nat \ {0}
      /\ Len(block_table[s]) = 0
  BY <1>3, EndsType, EmptySeq DEF TypeOK
<1>6. MethodHasRoom'
  BY <1>5, LenProperties DEF MethodHasRoom, can_swap_in, TypeOK, seqVars, poolVars
<1> QED
  BY <1>1, <1>4, <1>6

(***************************************************************************)
(* An iteration of allocate, whichever way the block was obtained.         *)
(***************************************************************************)
LEMMA AddToTableType ==
  ASSUME TypeInv, op = "allocate",
         NEW b \in BlockId, AddToTable(b),
         ref_count' \in [BlockId -> Int],
         free_block_ids' \in Seq(BlockId),
         used_block_ids' \subseteq BlockId,
         Len(free_block_ids') >= Len(free_block_ids) - 1,
         num_cached_tokens' \in [Request -> Nat]
  PROVE  TypeInv'
<1> USE DEF TypeInv, Call, Return
<1> DEFINE n == Len(block_table[cur])
<1>1. /\ cur \in Request
      /\ NextTokens \in Seq(Token)
      /\ NextHash \in Seq(Token)
  BY NextBlockType
<1>2. /\ block_table[cur] \in Seq(BlockId)
      /\ n \in Nat
      /\ Append(block_table[cur], b) \in Seq(BlockId)
      /\ Append(block_table[cur], b) # <<>>
      /\ Len(Append(block_table[cur], b)) = n + 1
  BY <1>1, AppendType DEF TypeOK
<1>3. block_table' = [block_table EXCEPT ![cur] = Append(block_table[cur], b)]
  BY DEF AddToTable
<1>4. UNCHANGED <<token_ids, num_prompt_tokens, cpu_block_table,
                  cpu_free_block_ids, error>>
  BY DEF AddToTable
<1>5. /\ block_hash' \in [BlockId -> Seq(Token)]
      /\ block_token_ids' \in [BlockId -> Seq(Token)]
      /\ DOMAIN hash_to_block_id' \subseteq Seq(Token)
      /\ hash_to_block_id' \in [DOMAIN hash_to_block_id' -> BlockId]
  BY <1>1, LabelType DEF AddToTable
<1>6. /\ status[cur] = "waiting"
      /\ cpu_block_table[cur] = <<>>
      /\ n < num_blocks(cur)
      /\ num_blocks(cur) <= n + Len(free_block_ids)
  BY DEF MethodHasRoom
<1>7. /\ num_blocks(cur) \in Nat
      /\ Len(free_block_ids) \in Nat
      /\ Len(free_block_ids') \in Nat
  BY <1>1, NumBlocksPositive, LenProperties DEF TypeOK
<1>8. block_table' \in [Request -> Seq(BlockId)]
  BY <1>1, <1>2, <1>3 DEF TypeOK
<1>9. cur # NoRequest
  BY <1>1, BlockManagerAssumption
<1>10. CASE /\ n + 1 < num_blocks(cur)
            /\ chain' = NextHash
            /\ cache_miss' = ~CacheHit
            /\ UNCHANGED <<op, cur, status, placed>>
  <2>1. cache_miss' \in BOOLEAN
    BY <1>10
  <2>2. TypeOK'
    BY <1>1, <1>4, <1>5, <1>8, <1>10, <2>1 DEF TypeOK
  <2>3. TablesFollowStatus'
    BY <1>1, <1>2, <1>3, <1>4, <1>10 DEF TypeOK, TablesFollowStatus
  <2>4. num_blocks(cur)' = num_blocks(cur)
    BY <1>4, <1>10 DEF num_blocks, SeqLen
  <2>5. Len(block_table'[cur']) = n + 1
    BY <1>1, <1>2, <1>3, <1>10 DEF TypeOK
  <2>6. MethodHasRoom'
    BY <1>1, <1>2, <1>4, <1>6, <1>7, <1>10, <2>4, <2>5 DEF MethodHasRoom
  <2> QED
    BY <2>2, <2>3, <2>6
<1>11. CASE /\ Return
            /\ status' = [status EXCEPT ![cur] = "running"]
            /\ placed' = [placed EXCEPT ![cur] = TRUE]
  <2>1. /\ op' \in Methods
        /\ cur' \in Request \cup {NoRequest}
        /\ cur' = NoRequest <=> op' = "idle"
        /\ chain' \in Seq(Token)
        /\ cache_miss' \in BOOLEAN
    BY <1>11, EmptySeq DEF Methods, NoHash
  <2>2. TypeOK'
    BY <1>1, <1>4, <1>5, <1>8, <1>11, <2>1 DEF TypeOK
  <2>3. TablesFollowStatus'
    BY <1>1, <1>2, <1>3, <1>4, <1>6, <1>11 DEF TypeOK, TablesFollowStatus
  <2>4. MethodHasRoom'
    BY <1>11 DEF MethodHasRoom
  <2> QED
    BY <2>2, <2>3, <2>4
<1> QED
  BY <1>10, <1>11 DEF AddToTable

LEMMA AllocateStepType ==
  ASSUME TypeInv, AllocateStep
  PROVE  TypeInv'
<1> USE DEF TypeInv
<1>1. cur \in Request /\ free_block_ids \in Seq(BlockId) /\ NextHash \in Seq(Token)
  BY NextBlockType DEF TypeOK, AllocateStep, AllocateMiss, AllocateShared, AllocateRevived
<1>2. CASE AllocateMiss
  <2>1. num_blocks(cur) \in Nat /\ Len(block_table[cur]) \in Nat /\ Len(free_block_ids) \in Nat
    BY <1>1, NumBlocksPositive, LenProperties DEF TypeOK
  <2>2. free_block_ids # <<>>
    BY <1>1, <1>2, <2>1, EmptySeq DEF MethodHasRoom, AllocateMiss
  <2>3. Head(free_block_ids) \in BlockId
    BY <1>1, <2>2, EndsType
  <2>4. num_cached_tokens' \in [Request -> Nat]
    BY <1>2 DEF AllocateMiss, TypeOK
  <2> QED
    BY <1>2, <2>3, <2>4, AllocateBlockType, AddToTableType DEF AllocateMiss
<1>3. CacheHit => hash_to_block_id[NextHash] \in BlockId
  BY <1>1 DEF CacheHit, TypeOK
<1>4. CountCached => num_cached_tokens' \in [Request -> Nat]
  BY <1>1, BlockManagerAssumption DEF CountCached, TypeOK
<1>5. CASE AllocateShared
  <2> DEFINE b == hash_to_block_id[NextHash]
  <2>1. b \in BlockId
    BY <1>3, <1>5 DEF AllocateShared
  <2> HIDE DEF b
  <2>2. ref_count' \in [BlockId -> Int]
    <3>1. ref_count' = [ref_count EXCEPT ![b] = ref_count[b] + 1]
      BY <1>5 DEF AllocateShared, ShareBlock, b
    <3>2. ref_count \in [BlockId -> Int]
      BY DEF TypeOK
    <3> QED
      BY <2>1, <3>1, <3>2
  <2>3. UNCHANGED <<free_block_ids, used_block_ids>>
    BY <1>5 DEF AllocateShared, ShareBlock
  <2>4. Len(free_block_ids') >= Len(free_block_ids) - 1
    BY <1>1, <2>3, LenProperties
  <2>5. AddToTable(b) /\ op = "allocate" /\ num_cached_tokens' \in [Request -> Nat]
    BY <1>4, <1>5 DEF AllocateShared, b
  <2>6. free_block_ids' \in Seq(BlockId) /\ used_block_ids' \subseteq BlockId
    BY <2>3 DEF TypeOK
  <2> QED
    BY <2>1, <2>2, <2>4, <2>5, <2>6, AddToTableType
<1>6. CASE AllocateRevived
  BY <1>3, <1>4, <1>6, AllocateBlockType, AddToTableType DEF AllocateRevived
<1> QED
  BY <1>2, <1>5, <1>6 DEF AllocateStep

LEMMA DeallocateStepType ==
  ASSUME TypeInv, DeallocateStep
  PROVE  TypeInv'
<1> USE DEF TypeInv, Call, Return
<1> DEFINE n == Len(block_table[cur])
<1>1. /\ cur \in Request
      /\ cur # NoRequest
      /\ block_table[cur] \in Seq(BlockId)
  BY BlockManagerAssumption DEF TypeOK, DeallocateStep
<1>2. /\ status[cur] \in {"finished", "waiting"}
      /\ cpu_block_table[cur] = <<>>
      /\ block_table[cur] # <<>>
  BY DEF MethodHasRoom, DeallocateStep
<1>3. /\ n \in Nat \ {0}
      /\ Last(block_table[cur]) \in BlockId
      /\ Front(block_table[cur]) \in Seq(BlockId)
      /\ Len(Front(block_table[cur])) = n - 1
  BY <1>1, <1>2, EndsType
<1>4. ReleaseBlock(Last(block_table[cur]))
  BY DEF DeallocateStep
<1>5. /\ ref_count' \in [BlockId -> Int]
      /\ free_block_ids' \in Seq(BlockId)
      /\ used_block_ids' \subseteq BlockId
  BY <1>3, <1>4, ReleaseBlockType
<1>6. block_table' = [block_table EXCEPT ![cur] = Front(block_table[cur])]
  BY DEF DeallocateStep
<1>7. block_table' \in [Request -> Seq(BlockId)]
  BY <1>3, <1>6 DEF TypeOK
<1>8. UNCHANGED <<seqVars, cpu_block_table, cacheVars, cpu_free_block_ids, error>>
  BY DEF DeallocateStep
<1>9. CASE n > 1 /\ UNCHANGED <<callVars, num_cached_tokens>>
  <2>1. TypeOK'
    BY <1>5, <1>7, <1>8, <1>9 DEF TypeOK, seqVars, cacheVars, callVars
  <2>2. TablesFollowStatus'
    BY <1>1, <1>2, <1>6, <1>8, <1>9 DEF TypeOK, TablesFollowStatus, seqVars, callVars
  <2>3. Front(block_table[cur]) # <<>>
    BY <1>3, <1>9, EmptySeq
  <2>4. MethodHasRoom'
    BY <1>1, <1>2, <1>6, <1>8, <1>9, <2>3
    DEF MethodHasRoom, TypeOK, seqVars, callVars, DeallocateStep
  <2> QED
    BY <2>1, <2>2, <2>4
<1>10. CASE n = 1 /\ Return /\ num_cached_tokens' = [num_cached_tokens EXCEPT ![cur] = 0]
  <2>1. TypeOK'
    BY <1>5, <1>7, <1>8, <1>10, EmptySeq
    DEF TypeOK, seqVars, cacheVars, Methods, NoHash
  <2>2. Front(block_table[cur]) = <<>>
    BY <1>3, <1>10, EmptySeq
  <2>3. TablesFollowStatus'
    BY <1>1, <1>2, <1>6, <1>8, <1>10, <2>2 DEF TypeOK, TablesFollowStatus, seqVars
  <2>4. MethodHasRoom'
    BY <1>10 DEF MethodHasRoom
  <2> QED
    BY <2>1, <2>3, <2>4
<1> QED
  BY <1>9, <1>10 DEF DeallocateStep

LEMMA SwapOutStepType ==
  ASSUME TypeInv, SwapOutStep
  PROVE  TypeInv'
<1> USE DEF TypeInv, Call, Return
<1> DEFINE n == Len(cpu_block_table[cur])
           new == Head(cpu_free_block_ids)
<1>1. /\ cur \in Request
      /\ cur # NoRequest
      /\ block_table[cur] \in Seq(BlockId)
      /\ cpu_block_table[cur] \in Seq(CpuBlockId)
      /\ cpu_free_block_ids \in Seq(CpuBlockId)
      /\ op = "swap_out"
  BY BlockManagerAssumption DEF TypeOK, SwapOutStep
<1>2. /\ status[cur] = "running"
      /\ n < Len(block_table[cur])
      /\ Len(block_table[cur]) <= n + Len(cpu_free_block_ids)
  BY <1>1 DEF MethodHasRoom
<1>3. /\ n \in Nat
      /\ Len(block_table[cur]) \in Nat
      /\ Len(cpu_free_block_ids) \in Nat
  BY <1>1, LenProperties
<1>4. cpu_free_block_ids # <<>>
  BY <1>1, <1>2, <1>3, EmptySeq
<1>5. /\ new \in CpuBlockId
      /\ Tail(cpu_free_block_ids) \in Seq(CpuBlockId)
      /\ Len(Tail(cpu_free_block_ids)) = Len(cpu_free_block_ids) - 1
  BY <1>1, <1>4, EndsType
<1>6. /\ Append(cpu_block_table[cur], new) \in Seq(CpuBlockId)
      /\ Append(cpu_block_table[cur], new) # <<>>
      /\ Len(Append(cpu_block_table[cur], new)) = n + 1
  BY <1>1, <1>5, AppendType
<1>7. /\ cpu_block_table' = [cpu_block_table EXCEPT ![cur] = Append(cpu_block_table[cur], new)]
      /\ cpu_free_block_ids' = Tail(cpu_free_block_ids)
      /\ ReleaseBlock(block_table[cur][n + 1])
      /\ UNCHANGED <<token_ids, num_prompt_tokens, placed, num_cached_tokens,
                     cacheVars, error>>
  BY DEF SwapOutStep, TakeCpuBlock
<1>8. block_table[cur][n + 1] \in BlockId
  BY <1>1, <1>2, <1>3, ElementOfSeq
<1>9. /\ ref_count' \in [BlockId -> Int]
      /\ free_block_ids' \in Seq(BlockId)
      /\ used_block_ids' \subseteq BlockId
  BY <1>7, <1>8, ReleaseBlockType
<1>10. cpu_block_table' \in [Request -> Seq(CpuBlockId)]
  BY <1>6, <1>7 DEF TypeOK
<1>11. CASE n + 1 < Len(block_table[cur]) /\ UNCHANGED <<block_table, status, callVars>>
  <2>1. TypeOK'
    BY <1>5, <1>7, <1>9, <1>10, <1>11 DEF TypeOK, cacheVars, callVars
  <2>2. TablesFollowStatus'
    BY <1>1, <1>2, <1>6, <1>7, <1>11 DEF TypeOK, TablesFollowStatus, callVars
  <2>3. MethodHasRoom'
    BY <1>1, <1>2, <1>3, <1>5, <1>6, <1>7, <1>11 DEF MethodHasRoom, TypeOK, callVars
  <2> QED
    BY <2>1, <2>2, <2>3
<1>12. CASE /\ n + 1 = Len(block_table[cur])
            /\ block_table' = [block_table EXCEPT ![cur] = <<>>]
            /\ status' = [status EXCEPT ![cur] = "swapped"]
            /\ Return
  <2>1. block_table' \in [Request -> Seq(BlockId)]
    BY <1>12, EmptySeq DEF TypeOK
  <2>2. TypeOK'
    BY <1>5, <1>7, <1>9, <1>10, <1>12, <2>1, EmptySeq DEF TypeOK, cacheVars, Methods, NoHash
  <2>3. TablesFollowStatus'
    BY <1>1, <1>2, <1>6, <1>7, <1>12 DEF TypeOK, TablesFollowStatus
  <2>4. MethodHasRoom'
    BY <1>12 DEF MethodHasRoom
  <2> QED
    BY <2>2, <2>3, <2>4
<1> QED
  BY <1>11, <1>12 DEF SwapOutStep

LEMMA SwapInStepType ==
  ASSUME TypeInv, SwapInStep
  PROVE  TypeInv'
<1> USE DEF TypeInv, Call, Return
<1> DEFINE n == Len(block_table[cur])
           new == Head(free_block_ids)
<1>1. /\ cur \in Request
      /\ cur # NoRequest
      /\ block_table[cur] \in Seq(BlockId)
      /\ cpu_block_table[cur] \in Seq(CpuBlockId)
      /\ free_block_ids \in Seq(BlockId)
      /\ cpu_free_block_ids \in Seq(CpuBlockId)
      /\ op = "swap_in"
  BY BlockManagerAssumption DEF TypeOK, SwapInStep
<1>2. /\ status[cur] = "swapped"
      /\ n < Len(cpu_block_table[cur])
      /\ Len(cpu_block_table[cur]) <= n + Len(free_block_ids)
  BY <1>1 DEF MethodHasRoom
<1>3. /\ n \in Nat
      /\ Len(cpu_block_table[cur]) \in Nat
      /\ Len(free_block_ids) \in Nat
  BY <1>1, LenProperties
<1>4. free_block_ids # <<>>
  BY <1>1, <1>2, <1>3, EmptySeq
<1>5. /\ new \in BlockId
      /\ Tail(free_block_ids) \in Seq(BlockId)
      /\ Len(Tail(free_block_ids)) = Len(free_block_ids) - 1
  BY <1>1, <1>4, EndsType
<1>6. /\ Append(block_table[cur], new) \in Seq(BlockId)
      /\ Append(block_table[cur], new) # <<>>
      /\ Len(Append(block_table[cur], new)) = n + 1
  BY <1>1, <1>5, AppendType
<1>7. /\ block_table' = [block_table EXCEPT ![cur] = Append(block_table[cur], new)]
      /\ free_block_ids' = Tail(free_block_ids)
      /\ used_block_ids' = used_block_ids \cup {new}
      /\ ref_count' = [ref_count EXCEPT ![new] = 1]
      /\ cpu_free_block_ids' = Append(cpu_free_block_ids, cpu_block_table[cur][n + 1])
      /\ Label(new, NextHash, NextTokens)
      /\ UNCHANGED <<token_ids, num_prompt_tokens, placed, num_cached_tokens, error>>
  BY DEF SwapInStep
<1>8. NextTokens \in Seq(Token) /\ NextHash \in Seq(Token)
  BY <1>1, NextBlockType
<1>9. /\ block_hash' \in [BlockId -> Seq(Token)]
      /\ block_token_ids' \in [BlockId -> Seq(Token)]
      /\ DOMAIN hash_to_block_id' \subseteq Seq(Token)
      /\ hash_to_block_id' \in [DOMAIN hash_to_block_id' -> BlockId]
  BY <1>5, <1>7, <1>8, LabelType
<1>10. cpu_free_block_ids' \in Seq(CpuBlockId)
  <2>1. cpu_block_table[cur][n + 1] \in CpuBlockId
    BY <1>1, <1>2, <1>3, ElementOfSeq
  <2> QED
    BY <1>1, <1>7, <2>1, AppendType
<1>11. /\ ref_count' \in [BlockId -> Int]
       /\ used_block_ids' \subseteq BlockId
       /\ block_table' \in [Request -> Seq(BlockId)]
  <2> HIDE DEF new
  <2>1. ref_count' \in [BlockId -> Int]
    <3>1. ref_count \in [BlockId -> Int]
      BY DEF TypeOK
    <3>2. ref_count' = [ref_count EXCEPT ![new] = 1]
      BY <1>7
    <3> QED
      BY <1>5, <3>1, <3>2
  <2>2. used_block_ids' \subseteq BlockId
    BY <1>5, <1>7 DEF TypeOK
  <2>3. block_table' \in [Request -> Seq(BlockId)]
    BY <1>6, <1>7 DEF TypeOK
  <2> QED
    BY <2>1, <2>2, <2>3
<1>12. CASE /\ n + 1 < Len(cpu_block_table[cur])
            /\ chain' = NextHash
            /\ UNCHANGED <<cpu_block_table, status, op, cur, cache_miss>>
  <2>1. TypeOK'
    BY <1>5, <1>7, <1>8, <1>9, <1>10, <1>11, <1>12 DEF TypeOK
  <2>2. TablesFollowStatus'
    BY <1>1, <1>2, <1>6, <1>7, <1>12 DEF TypeOK, TablesFollowStatus
  <2>3. MethodHasRoom'
    BY <1>1, <1>2, <1>3, <1>5, <1>6, <1>7, <1>12 DEF MethodHasRoom, TypeOK
  <2> QED
    BY <2>1, <2>2, <2>3
<1>13. CASE /\ n + 1 = Len(cpu_block_table[cur])
            /\ cpu_block_table' = [cpu_block_table EXCEPT ![cur] = <<>>]
            /\ status' = [status EXCEPT ![cur] = "running"]
            /\ Return
  <2>1. cpu_block_table' \in [Request -> Seq(CpuBlockId)]
    BY <1>13, EmptySeq DEF TypeOK
  <2>2. TypeOK'
    BY <1>5, <1>7, <1>9, <1>10, <1>11, <1>13, <2>1, EmptySeq DEF TypeOK, Methods, NoHash
  <2>3. TablesFollowStatus'
    BY <1>1, <1>2, <1>6, <1>7, <1>13 DEF TypeOK, TablesFollowStatus
  <2>4. MethodHasRoom'
    BY <1>13 DEF MethodHasRoom
  <2> QED
    BY <2>2, <2>3, <2>4
<1> QED
  BY <1>12, <1>13 DEF SwapInStep

LEMMA CopyOnWriteType ==
  ASSUME TypeInv, NEW s \in Request, CopyOnWrite(s)
  PROVE  TypeInv'
<1> USE DEF TypeInv, Call
<1> DEFINE n == Len(block_table[s])
           old == last_block(s)
           new == Head(free_block_ids)
<1>1. /\ status[s] = "running"
      /\ op = "idle"
      /\ \A u \in Request : cur # u
      /\ UNCHANGED <<seqVars, cpu_block_table, num_cached_tokens, cpu_free_block_ids>>
  BY BlockManagerAssumption DEF TypeOK, CopyOnWrite, Idle
<1>2. /\ block_table[s] \in Seq(BlockId)
      /\ block_table[s] # <<>>
      /\ cpu_block_table[s] = <<>>
  BY <1>1 DEF TypeOK, TablesFollowStatus
<1>3. n \in Nat \ {0} /\ old \in BlockId
  BY <1>2, EndsType DEF last_block
<1>4. ASSUME op' = "may_append", cur' = s,
             Len(block_table'[s]) = n,
             block_table' \in [Request -> Seq(BlockId)],
             \A u \in Request \ {s} : block_table'[u] = block_table[u]
      PROVE  TablesFollowStatus' /\ MethodHasRoom'
  <2>1. block_table'[s] # <<>>
    BY <1>3, <1>4, EmptySeq
  <2>2. TablesFollowStatus'
    BY <1>1, <1>2, <1>4, <2>1 DEF TypeOK, TablesFollowStatus, seqVars
  <2>3. MethodHasRoom'
    BY <1>1, <1>2, <1>4 DEF MethodHasRoom, seqVars
  <2> QED
    BY <2>2, <2>3
<1>5. ASSUME Call("may_append", s)
      PROVE  /\ op' \in Methods
             /\ cur' \in Request \cup {NoRequest}
             /\ cur' = NoRequest <=> op' = "idle"
             /\ chain' \in Seq(Token)
             /\ cache_miss' \in BOOLEAN
  BY <1>5, EmptySeq, BlockManagerAssumption DEF Methods, NoHash
<1>6. CASE Call("may_append", s) /\ UNCHANGED <<block_table, poolVars, cacheVars, error>>
  <2>1. TypeOK'
    BY <1>1, <1>5, <1>6 DEF TypeOK, seqVars, poolVars, cacheVars
  <2> QED
    BY <1>4, <1>6, <2>1 DEF TypeOK
<1>7. CASE /\ free_block_ids # <<>>
           /\ free_block_ids' = Tail(free_block_ids)
           /\ used_block_ids' = used_block_ids \cup {new}
           /\ ref_count' = [ref_count EXCEPT ![new] = 1, ![old] = @ - 1]
           /\ Label(new, block_hash[old], block_token_ids[old])
           /\ block_table' = [block_table EXCEPT ![s][n] = new]
           /\ Call("may_append", s)
           /\ UNCHANGED error
  <2>1. new \in BlockId /\ free_block_ids' \in Seq(BlockId)
    BY <1>7, EndsType DEF TypeOK
  <2>2. /\ block_hash' \in [BlockId -> Seq(Token)]
        /\ block_token_ids' \in [BlockId -> Seq(Token)]
        /\ DOMAIN hash_to_block_id' \subseteq Seq(Token)
        /\ hash_to_block_id' \in [DOMAIN hash_to_block_id' -> BlockId]
    BY <1>3, <1>7, <2>1, LabelType DEF TypeOK
  <2> HIDE DEF new, old
  <2>3. ref_count' \in [BlockId -> Int]
    <3>1. ref_count \in [BlockId -> Int]
      BY DEF TypeOK
    <3>2. ref_count' = [ref_count EXCEPT ![new] = 1, ![old] = @ - 1]
      BY <1>7
    <3> QED
      BY <1>3, <2>1, <3>1, <3>2
  <2>4. used_block_ids' \subseteq BlockId
    BY <1>7, <2>1 DEF TypeOK
  <2>5. /\ [block_table[s] EXCEPT ![n] = new] \in Seq(BlockId)
        /\ Len([block_table[s] EXCEPT ![n] = new]) = n
    BY <1>2, <1>3, <2>1, ExceptSeq
  <2>6. block_table' = [block_table EXCEPT ![s] = [block_table[s] EXCEPT ![n] = new]]
    BY <1>7
  <2>7. /\ block_table' \in [Request -> Seq(BlockId)]
        /\ Len(block_table'[s]) = n
        /\ \A u \in Request \ {s} : block_table'[u] = block_table[u]
    BY <2>5, <2>6 DEF TypeOK
  <2>8. TypeOK'
    BY <1>1, <1>5, <1>7, <2>1, <2>2, <2>3, <2>4, <2>7 DEF TypeOK, seqVars
  <2> QED
    BY <1>4, <1>7, <2>7, <2>8
<1>8. CASE error' = "no free block" /\ UNCHANGED <<block_table, poolVars, cacheVars, callVars>>
  <2>1. TypeOK'
    BY <1>1, <1>8 DEF TypeOK, seqVars, poolVars, cacheVars, callVars, Exceptions
  <2>2. TablesFollowStatus'
    BY <1>1, <1>8 DEF TablesFollowStatus, seqVars, callVars
  <2>3. MethodHasRoom'
    BY <1>1, <1>8 DEF MethodHasRoom, callVars
  <2> QED
    BY <2>1, <2>2, <2>3
<1> QED
  BY <1>6, <1>7, <1>8 DEF CopyOnWrite

LEMMA AppendStepType ==
  ASSUME TypeInv, AppendStep
  PROVE  TypeInv'
<1> USE DEF TypeInv, Call, Return
<1>1. /\ op = "may_append"
      /\ cur \in Request
      /\ cur # NoRequest
  BY BlockManagerAssumption DEF TypeOK, AppendStep, AppendNewBlock, AppendFillsBlock,
                                AppendInside, AppendRaises, Appending
<1>2. /\ status[cur] = "running"
      /\ cpu_block_table[cur] = <<>>
      /\ block_table[cur] \in Seq(BlockId)
      /\ block_table[cur] # <<>>
  BY <1>1 DEF TypeOK, MethodHasRoom, TablesFollowStatus
<1>3. last_block(cur) \in BlockId
  BY <1>2, EndsType DEF last_block
<1>4. ASSUME AppendDone,
             block_table' \in [Request -> Seq(BlockId)],
             block_table'[cur] # <<>>,
             \A u \in Request \ {cur} : block_table'[u] = block_table[u],
             ref_count' \in [BlockId -> Int],
             free_block_ids' \in Seq(BlockId),
             used_block_ids' \subseteq BlockId,
             block_hash' \in [BlockId -> Seq(Token)],
             block_token_ids' \in [BlockId -> Seq(Token)],
             DOMAIN hash_to_block_id' \subseteq Seq(Token),
             hash_to_block_id' \in [DOMAIN hash_to_block_id' -> BlockId]
      PROVE  TypeInv'
  <2>1. TypeOK'
    BY <1>4, EmptySeq DEF TypeOK, AppendDone, Methods, NoHash
  <2>2. TablesFollowStatus'
    BY <1>1, <1>2, <1>4 DEF TypeOK, TablesFollowStatus, AppendDone
  <2>3. MethodHasRoom'
    BY <1>4 DEF MethodHasRoom, AppendDone
  <2> QED
    BY <2>1, <2>2, <2>3
<1>5. CASE AppendNewBlock
  <2> DEFINE new == Head(free_block_ids)
  <2>1. new \in BlockId
    BY <1>5, EndsType DEF AppendNewBlock, TypeOK
  <2>2. /\ ref_count' \in [BlockId -> Int]
        /\ free_block_ids' \in Seq(BlockId)
        /\ used_block_ids' \subseteq BlockId
    BY <1>5, <2>1, AllocateBlockType DEF AppendNewBlock
  <2>3. /\ block_hash' \in [BlockId -> Seq(Token)]
        /\ block_token_ids' \in [BlockId -> Seq(Token)]
        /\ DOMAIN hash_to_block_id' \subseteq Seq(Token)
        /\ hash_to_block_id' \in [DOMAIN hash_to_block_id' -> BlockId]
    BY <1>5, <2>1, LabelType, EmptySeq DEF AppendNewBlock, NoHash
  <2>4. Append(block_table[cur], new) \in Seq(BlockId) /\ Append(block_table[cur], new) # <<>>
    BY <1>2, <2>1, AppendType
  <2>5. block_table' = [block_table EXCEPT ![cur] = Append(block_table[cur], new)]
    BY <1>5 DEF AppendNewBlock
  <2>6. /\ block_table' \in [Request -> Seq(BlockId)]
        /\ block_table'[cur] # <<>>
        /\ \A u \in Request \ {cur} : block_table'[u] = block_table[u]
    BY <1>1, <2>4, <2>5 DEF TypeOK
  <2>7. AppendDone
    BY <1>5 DEF AppendNewBlock
  <2> QED
    BY <1>4, <2>2, <2>3, <2>6, <2>7
<1>6. CASE AppendFillsBlock
  <2> DEFINE tokens == block(cur, num_blocks(cur))
             n == Len(block_table[cur])
             prefix == IF n > 1 THEN block_hash[block_table[cur][n - 1]] ELSE NoHash
  <2>1. token_ids[cur] # <<>>
    BY <1>1, <1>2 DEF TablesFollowStatus
  <2>2. num_blocks(cur) \in Nat \ {0}
    BY <1>1, <2>1, NumBlocksPositive
  <2>3. tokens \in Seq(Token)
    BY <1>1, <2>2, BlockType
  <2>4. n \in Nat
    BY <1>2, LenProperties
  <2>5. n > 1 => block_table[cur][n - 1] \in BlockId
    BY <1>2, <2>4, ElementOfSeq
  <2>6. prefix \in Seq(Token)
    BY <2>5, EmptySeq DEF NoHash, TypeOK
  <2>7. Label(last_block(cur), compute_hash(tokens, prefix), tokens)
    BY <1>6 DEF AppendFillsBlock
  <2> HIDE DEF tokens, prefix
  <2>8. compute_hash(tokens, prefix) \in Seq(Token)
    BY <2>3, <2>6, ConcatProperties DEF compute_hash
  <2>9. /\ block_hash' \in [BlockId -> Seq(Token)]
        /\ block_token_ids' \in [BlockId -> Seq(Token)]
        /\ DOMAIN hash_to_block_id' \subseteq Seq(Token)
        /\ hash_to_block_id' \in [DOMAIN hash_to_block_id' -> BlockId]
    BY <1>3, <2>3, <2>7, <2>8, LabelType
  <2>10. AppendDone /\ UNCHANGED <<block_table, poolVars>>
    BY <1>6 DEF AppendFillsBlock
  <2> QED
    BY <1>2, <1>4, <2>9, <2>10 DEF TypeOK, poolVars
<1>7. CASE AppendInside
  <2>1. AppendDone /\ UNCHANGED <<block_table, poolVars, cacheVars>>
    BY <1>7 DEF AppendInside
  <2> QED
    BY <1>2, <1>4, <2>1 DEF TypeOK, poolVars, cacheVars
<1>8. CASE AppendRaises
  <2>1. \E e \in Exceptions : Raise(e)
    BY <1>8 DEF AppendRaises, Exceptions
  <2>2. PICK e \in Exceptions : Raise(e)
    BY <2>1
  <2>3. TypeOK'
    BY <2>2 DEF Raise, TypeOK, seqVars, poolVars, cacheVars, callVars
  <2>4. TablesFollowStatus'
    BY <2>2 DEF Raise, TablesFollowStatus, seqVars, callVars
  <2>5. MethodHasRoom'
    BY <1>1, <2>2 DEF Raise, MethodHasRoom, seqVars, callVars
  <2> QED
    BY <2>3, <2>4, <2>5
<1> QED
  BY <1>5, <1>6, <1>7, <1>8 DEF AppendStep

LEMMA StutterType ==
  ASSUME TypeInv, UNCHANGED vars
  PROVE  TypeInv'
<1>1. TypeOK'
  BY DEF TypeInv, TypeOK, vars, seqVars, poolVars, cacheVars, callVars
<1>2. TablesFollowStatus'
  BY DEF TypeInv, TablesFollowStatus, vars, seqVars, callVars
<1>3. MethodHasRoom'
  BY DEF TypeInv, MethodHasRoom, num_blocks, SeqLen, vars, seqVars, poolVars, callVars
<1> QED
  BY <1>1, <1>2, <1>3 DEF TypeInv

-----------------------------------------------------------------------------
(***************************************************************************)
(* Every step of the block manager keeps the types and the room.           *)
(***************************************************************************)
LEMMA TypeStep ==
  ASSUME TypeInv, [Next]_vars
  PROVE  TypeInv'
<1>1. ASSUME NEW s \in Request, NewSequence(s) PROVE TypeInv'
  BY <1>1, NewSequenceType
<1>2. ASSUME NEW s \in Request, NEW t \in Token, append_token(s, t) PROVE TypeInv'
  BY <1>2, AppendTokenType
<1>3. ASSUME NEW s \in Request, NEW n \in ChunkEnds, RecordComputed(s, n) PROVE TypeInv'
  BY <1>3, RecordComputedType
<1>4. ASSUME NEW s \in Request, BeginAllocate(s) PROVE TypeInv'
  BY <1>4, BeginAllocateType
<1>5. ASSUME NEW s \in Request, BeginFinish(s) PROVE TypeInv'
  BY <1>5, BeginFinishType
<1>6. ASSUME NEW s \in Request, Preempt(s) PROVE TypeInv'
  BY <1>6, PreemptType
<1>7. ASSUME NEW s \in Request, BeginSwapIn(s) PROVE TypeInv'
  BY <1>7, BeginSwapInType
<1>8. ASSUME NEW s \in Request, CopyOnWrite(s) PROVE TypeInv'
  BY <1>8, CopyOnWriteType
<1>9. CASE AllocateStep
  BY <1>9, AllocateStepType
<1>10. CASE DeallocateStep
  BY <1>10, DeallocateStepType
<1>11. CASE SwapOutStep
  BY <1>11, SwapOutStepType
<1>12. CASE SwapInStep
  BY <1>12, SwapInStepType
<1>13. CASE AppendStep
  BY <1>13, AppendStepType
<1>14. CASE Stopped
  BY <1>14, StutterType DEF Stopped
<1>15. CASE UNCHANGED vars
  BY <1>15, StutterType
<1> QED
  BY <1>1, <1>2, <1>3, <1>4, <1>5, <1>6, <1>7, <1>8, <1>9, <1>10, <1>11, <1>12,
     <1>13, <1>14, <1>15 DEF Next

(***************************************************************************)
(* Type correctness and room, for every pool size and every request load:  *)
(* the loops of allocate, deallocate, swap_out and swap_in never index a   *)
(* table or pop a queue out of its range.                                  *)
(***************************************************************************)
THEOREM TypeInvariant == Spec => []TypeInv
<1>1. Init => TypeInv
  BY InitType
<1>2. TypeInv /\ [Next]_vars => TypeInv'
  BY TypeStep
<1> QED
  BY <1>1, <1>2, PTL DEF Spec

(***************************************************************************)
(* The type invariant that the runs check.                                 *)
(***************************************************************************)
THEOREM TypeCorrect == Spec => []TypeOK
<1>1. TypeInv => TypeOK
  BY DEF TypeInv
<1> QED
  BY <1>1, TypeInvariant, PTL

-----------------------------------------------------------------------------
(* Queues without repetition.                                              *)

(***************************************************************************)
(* deque.remove from a queue without repetition takes out that element and *)
(* nothing else.                                                           *)
(***************************************************************************)
LEMMA RemoveFirstRange ==
  ASSUME NEW S, NEW s \in Seq(S), IsInjective(s), NEW e \in Range(s)
  PROVE  /\ IsInjective(RemoveFirst(s, e))
         /\ Range(RemoveFirst(s, e)) = Range(s) \ {e}
<1> DEFINE n == Len(s)
           I == {i \in 1 .. n : s[i] = e}
           k == Min(I)
           left == SubSeq(s, 1, k - 1)
           right == SubSeq(s, k + 1, n)
           r == left \o right
<1>1. n \in Nat /\ DOMAIN s = 1 .. n /\ \A i \in 1 .. n : s[i] \in S
  BY LenProperties, ElementOfSeq
<1>2. \E i \in 1 .. n : s[i] = e
  BY <1>1 DEF Range
<1>3. k \in 1 .. n /\ s[k] = e
  <2>1. I \in SUBSET Nat /\ I # {}
    BY <1>1, <1>2
  <2> QED
    BY <2>1, MinInSet
<1>4. RemoveFirst(s, e) = r
  BY <1>2 DEF RemoveFirst, RemoveAt, SelectInSeq
<1> HIDE DEF k, n, I
<1>5. /\ left \in Seq(S)
      /\ Len(left) = k - 1
      /\ \A i \in 1 .. k - 1 : left[i] = s[i]
  BY <1>1, <1>3, SubSeqProperties
<1>6. /\ right \in Seq(S)
      /\ Len(right) = n - k
      /\ \A i \in 1 .. n - k : right[i] = s[k + i]
  BY <1>1, <1>3, SubSeqProperties
<1> HIDE DEF left, right
<1>7. /\ r \in Seq(S)
      /\ Len(r) = n - 1
      /\ \A i \in 1 .. n - 1 : IF i < k THEN r[i] = s[i] ELSE r[i] = s[i + 1]
  <2>1. r \in Seq(S)
    BY <1>5, <1>6, ConcatProperties
  <2>2. Len(r) = n - 1
    <3>1. Len(r) = Len(left) + Len(right)
      BY <1>5, <1>6, ConcatProperties
    <3> QED
      BY <1>1, <1>3, <1>5, <1>6, <3>1
  <2>3. \A i \in 1 .. n - 1 : r[i] = IF i <= k - 1 THEN left[i] ELSE right[i - (k - 1)]
    BY <1>1, <1>3, <1>5, <1>6, ConcatProperties
  <2>4. ASSUME NEW i \in 1 .. n - 1, i < k PROVE r[i] = s[i]
    BY <1>1, <1>3, <1>5, <2>3, <2>4
  <2>5. ASSUME NEW i \in 1 .. n - 1, ~ (i < k) PROVE r[i] = s[i + 1]
    <3>1. i - (k - 1) \in 1 .. n - k /\ k + (i - (k - 1)) = i + 1
      BY <1>1, <1>3, <2>5
    <3>2. ~ (i <= k - 1)
      BY <1>1, <1>3, <2>5
    <3>3. r[i] = right[i - (k - 1)]
      BY <2>3, <3>2
    <3> QED
      BY <1>6, <3>1, <3>3
  <2> QED
    BY <2>1, <2>2, <2>4, <2>5
<1>8. DOMAIN r = 1 .. n - 1
  BY <1>7, LenProperties
<1> HIDE DEF r
<1> DEFINE at(i) == IF i < k THEN i ELSE i + 1
<1>9. \A i \in 1 .. n - 1 : at(i) \in 1 .. n \ {k} /\ r[i] = s[at(i)]
  BY <1>1, <1>3, <1>7
<1>10. \A i, j \in 1 .. n - 1 : at(i) = at(j) => i = j
  BY <1>1, <1>3
<1>11. \A i \in 1 .. n \ {k} : \E j \in 1 .. n - 1 : at(j) = i
  <2> TAKE i \in 1 .. n \ {k}
  <2>1. CASE i < k
    <3>1. i \in 1 .. n - 1 /\ at(i) = i
      BY <1>1, <1>3, <2>1
    <3> QED
      BY <3>1
  <2>2. CASE i > k
    <3>1. i - 1 \in 1 .. n - 1 /\ at(i - 1) = i
      BY <1>1, <1>3, <2>2
    <3> QED
      BY <3>1
  <2> QED
    BY <1>1, <1>3, <2>1, <2>2
<1> HIDE DEF at
<1>12. IsInjective(r)
  BY <1>1, <1>8, <1>9, <1>10 DEF IsInjective
<1>13. Range(r) = Range(s) \ {e}
  <2>1. ASSUME NEW i \in 1 .. n - 1 PROVE r[i] \in Range(s) \ {e}
    <3>1. at(i) \in 1 .. n /\ at(i) # k /\ r[i] = s[at(i)]
      BY <1>9
    <3> QED
      BY <1>1, <1>3, <3>1 DEF IsInjective, Range
  <2>2. ASSUME NEW i \in 1 .. n, s[i] # e PROVE \E j \in 1 .. n - 1 : r[j] = s[i]
    BY <1>3, <1>9, <1>11, <2>2
  <2>3. ASSUME NEW x \in Range(r) PROVE x \in Range(s) \ {e}
    BY <1>8, <2>1, <2>3 DEF Range
  <2>4. ASSUME NEW x \in Range(s) \ {e} PROVE x \in Range(r)
    BY <1>1, <1>8, <2>2, <2>4 DEF Range
  <2> QED
    BY <2>3, <2>4
<1> QED
  BY <1>4, <1>12, <1>13

(***************************************************************************)
(* deque.popleft and deque.append on a queue without repetition.           *)
(***************************************************************************)
LEMMA TailRange ==
  ASSUME NEW S, NEW s \in Seq(S), IsInjective(s), s # <<>>
  PROVE  /\ Head(s) \in Range(s)
         /\ IsInjective(Tail(s))
         /\ Range(Tail(s)) = Range(s) \ {Head(s)}
<1> DEFINE n == Len(s)
<1>1. n \in Nat \ {0} /\ DOMAIN s = 1 .. n
  BY EndsType, LenProperties
<1>2. /\ Len(Tail(s)) = n - 1
      /\ DOMAIN Tail(s) = 1 .. n - 1
      /\ \A i \in 1 .. n - 1 : Tail(s)[i] = s[i + 1]
  BY HeadTailProperties, LenProperties
<1>3. Head(s) = s[1]
  OBVIOUS
<1> HIDE DEF n
<1>4. IsInjective(Tail(s))
  BY <1>1, <1>2 DEF IsInjective
<1>5. Range(Tail(s)) = Range(s) \ {Head(s)}
  <2>1. ASSUME NEW i \in 1 .. n - 1 PROVE Tail(s)[i] \in Range(s) \ {Head(s)}
    BY <1>1, <1>2, <1>3 DEF IsInjective, Range
  <2>2. ASSUME NEW i \in 1 .. n, i # 1 PROVE i - 1 \in 1 .. n - 1 /\ Tail(s)[i - 1] = s[i]
    BY <1>1, <1>2, <2>2
  <2>3. ASSUME NEW x \in Range(Tail(s)) PROVE x \in Range(s) \ {Head(s)}
    BY <1>2, <2>1, <2>3 DEF Range
  <2>4. ASSUME NEW x \in Range(s) \ {Head(s)} PROVE x \in Range(Tail(s))
    <3>1. PICK i \in 1 .. n : x = s[i]
      BY <1>1, <2>4 DEF Range
    <3>2. i # 1
      BY <1>3, <2>4, <3>1
    <3> QED
      BY <1>2, <2>2, <3>1, <3>2 DEF Range
  <2> QED
    BY <2>3, <2>4
<1>6. Head(s) \in Range(s)
  BY <1>1, <1>3 DEF Range
<1> QED
  BY <1>4, <1>5, <1>6

LEMMA AppendRange ==
  ASSUME NEW S, NEW s \in Seq(S), IsInjective(s), NEW e \in S, e \notin Range(s)
  PROVE  /\ IsInjective(Append(s, e))
         /\ Range(Append(s, e)) = Range(s) \cup {e}
<1> DEFINE n == Len(s)
           r == Append(s, e)
<1>1. n \in Nat /\ DOMAIN s = 1 .. n
  BY LenProperties
<1>2. /\ DOMAIN r = 1 .. n + 1
      /\ \A i \in 1 .. n : r[i] = s[i]
      /\ r[n + 1] = e
  BY AppendProperties, LenProperties
<1> HIDE DEF n, r
<1>3. IsInjective(r)
  BY <1>1, <1>2 DEF IsInjective, Range
<1>4. Range(r) = Range(s) \cup {e}
  BY <1>1, <1>2 DEF Range
<1> QED
  BY <1>3, <1>4 DEF r

-----------------------------------------------------------------------------
(* The pool.                                                               *)

(***************************************************************************)
(* The counters alone, without the queue.                                  *)
(***************************************************************************)
LEMMA CountsOfPool ==
  ASSUME TypeOK, PoolPartition
  PROVE  /\ ref_count \in [BlockId -> Int]
         /\ \A b \in BlockId : ref_count[b] >= 0 /\ (b \in used_block_ids <=> ref_count[b] > 0)
BY DEF TypeOK, PoolPartition

(***************************************************************************)
(* _allocate_block on a free block keeps the partition.                    *)
(***************************************************************************)
LEMMA AllocateBlockPartition ==
  ASSUME TypeOK, PoolPartition, NEW b \in BlockId, b \notin used_block_ids,
         allocate_block(b)
  PROVE  PoolPartition'
<1>1. b \in Range(free_block_ids)
  BY DEF PoolPartition
<1>2. /\ IsInjective(free_block_ids')
      /\ Range(free_block_ids') = Range(free_block_ids) \ {b}
  BY <1>1, RemoveFirstRange DEF TypeOK, PoolPartition, allocate_block
<1>3. /\ used_block_ids' = used_block_ids \cup {b}
      /\ ref_count' = [ref_count EXCEPT ![b] = 1]
  BY DEF allocate_block
<1>4. \A c \in BlockId : ref_count'[c] >= 0 /\ (c \in used_block_ids' <=> ref_count'[c] > 0)
  BY <1>3 DEF TypeOK, PoolPartition
<1> QED
  BY <1>2, <1>3, <1>4 DEF PoolPartition

LEMMA ShareBlockPartition ==
  ASSUME TypeOK, PoolPartition, NEW b \in BlockId, b \in used_block_ids, ShareBlock(b)
  PROVE  PoolPartition'
BY DEF TypeOK, PoolPartition, ShareBlock

(***************************************************************************)
(* Dropping a reference that exists keeps the partition.                   *)
(***************************************************************************)
LEMMA ReleaseBlockPartition ==
  ASSUME TypeOK, PoolPartition, NEW b \in BlockId, ref_count[b] > 0, ReleaseBlock(b)
  PROVE  PoolPartition'
<1>1. ref_count' = [ref_count EXCEPT ![b] = ref_count[b] - 1]
  BY DEF ReleaseBlock
<1>2. b \in used_block_ids /\ b \notin Range(free_block_ids)
  BY DEF PoolPartition
<1>3. CASE /\ ref_count[b] = 1
           /\ used_block_ids' = used_block_ids \ {b}
           /\ free_block_ids' = Append(free_block_ids, b)
  <2>1. /\ IsInjective(free_block_ids')
        /\ Range(free_block_ids') = Range(free_block_ids) \cup {b}
    BY <1>2, <1>3, AppendRange DEF TypeOK, PoolPartition
  <2>2. \A c \in BlockId : ref_count'[c] >= 0 /\ (c \in used_block_ids' <=> ref_count'[c] > 0)
    BY <1>1, <1>3 DEF TypeOK, PoolPartition
  <2>3. Range(free_block_ids') = BlockId \ used_block_ids'
    BY <1>2, <1>3, <2>1 DEF PoolPartition
  <2> QED
    BY <2>1, <2>2, <2>3 DEF PoolPartition
<1>4. CASE ref_count[b] # 1 /\ UNCHANGED <<used_block_ids, free_block_ids>>
  <2>1. \A c \in BlockId : ref_count'[c] >= 0 /\ (c \in used_block_ids' <=> ref_count'[c] > 0)
    BY <1>1, <1>4, CountsOfPool
  <2> QED
    BY <1>4, <2>1 DEF PoolPartition
<1> QED
  BY <1>3, <1>4 DEF ReleaseBlock

-----------------------------------------------------------------------------
(* The references to a block.                                              *)

(***************************************************************************)
(* The counters are right, and finite sets are what they count.            *)
(***************************************************************************)
RefInv == RefCountExact /\ \A b \in BlockId : IsFiniteSet(References(b))

(***************************************************************************)
(* A reference is a position in a page table that names the block.         *)
(***************************************************************************)
LEMMA ReferenceMember ==
  ASSUME NEW b, NEW u, NEW i
  PROVE  /\ <<u, i>> \in References(b) <=>
              u \in Request /\ i \in Held(u) /\ block_table[u][i] = b
         /\ <<u, i>> \in References(b)' <=>
              u \in Request /\ i \in Held(u)' /\ block_table'[u][i] = b
BY DEF References

LEMMA ReferencesArePairs ==
  ASSUME NEW b, NEW x
  PROVE  /\ x \in References(b) => \E u, i : x = <<u, i>>
         /\ x \in References(b)' => \E u, i : x = <<u, i>>
BY DEF References

(***************************************************************************)
(* To know the references after a step it is enough to know the pairs.     *)
(***************************************************************************)
LEMMA ReferencesByPairs ==
  ASSUME NEW b, NEW S,
         \A x \in S : \E u, i : x = <<u, i>>,
         \A u, i : <<u, i>> \in S <=>
                     u \in Request /\ i \in Held(u)' /\ block_table'[u][i] = b
  PROVE  References(b)' = S
<1>1. ASSUME NEW x \in References(b)' PROVE x \in S
  <2>1. PICK u, i : x = <<u, i>>
    BY <1>1, ReferencesArePairs
  <2> QED
    BY <1>1, <2>1, ReferenceMember
<1>2. ASSUME NEW x \in S PROVE x \in References(b)'
  <2>1. PICK u, i : x = <<u, i>>
    BY <1>2
  <2> QED
    BY <1>2, <2>1, ReferenceMember
<1> QED
  BY <1>1, <1>2

(***************************************************************************)
(* A block that gains one reference and one count.                         *)
(***************************************************************************)
LEMMA OneMore ==
  ASSUME TypeOK, RefInv, NEW b \in BlockId, NEW x, x \notin References(b),
         References(b)' = References(b) \cup {x},
         \A c \in BlockId \ {b} : References(c)' = References(c),
         ref_count'[b] = ref_count[b] + 1,
         \A c \in BlockId \ {b} : ref_count'[c] = ref_count[c]
  PROVE  RefInv'
<1>1. /\ IsFiniteSet(References(b))
      /\ ref_count[b] = Cardinality(References(b))
      /\ ref_count[b] \in Int
  BY DEF RefInv, RefCountExact, TypeOK
<1>2. /\ IsFiniteSet(References(b) \cup {x})
      /\ Cardinality(References(b) \cup {x}) = Cardinality(References(b)) + 1
  BY <1>1, FS_AddElement
<1>3. \A c \in BlockId : /\ ref_count'[c] = Cardinality(References(c)')
                         /\ IsFiniteSet(References(c)')
  BY <1>1, <1>2 DEF RefInv, RefCountExact
<1> QED
  BY <1>3 DEF RefInv, RefCountExact

(***************************************************************************)
(* A block that loses one reference and one count.                         *)
(***************************************************************************)
LEMMA OneLess ==
  ASSUME TypeOK, RefInv, NEW b \in BlockId, NEW x, x \in References(b),
         References(b)' = References(b) \ {x},
         \A c \in BlockId \ {b} : References(c)' = References(c),
         ref_count'[b] = ref_count[b] - 1,
         \A c \in BlockId \ {b} : ref_count'[c] = ref_count[c]
  PROVE  RefInv'
<1>1. /\ IsFiniteSet(References(b))
      /\ ref_count[b] = Cardinality(References(b))
      /\ ref_count[b] \in Int
  BY DEF RefInv, RefCountExact, TypeOK
<1>2. /\ IsFiniteSet(References(b) \ {x})
      /\ Cardinality(References(b) \ {x}) = Cardinality(References(b)) - 1
  BY <1>1, FS_RemoveElement
<1>3. \A c \in BlockId : /\ ref_count'[c] = Cardinality(References(c)')
                         /\ IsFiniteSet(References(c)')
  BY <1>1, <1>2 DEF RefInv, RefCountExact
<1> QED
  BY <1>3 DEF RefInv, RefCountExact

(***************************************************************************)
(* A block that has a reference has a positive count.                      *)
(***************************************************************************)
LEMMA ReferencedCounts ==
  ASSUME RefInv, NEW b \in BlockId, NEW x \in References(b)
  PROVE  ref_count[b] > 0
<1>1. /\ IsFiniteSet(References(b))
      /\ ref_count[b] = Cardinality(References(b))
  BY DEF RefInv, RefCountExact
<1>2. Cardinality(References(b)) \in Nat /\ Cardinality(References(b)) # 0
  BY <1>1, FS_CardinalityType, FS_EmptySet
<1> QED
  BY <1>1, <1>2

(***************************************************************************)
(* Steps that change neither the page tables nor what swap_out has given   *)
(* back leave the counts right.                                            *)
(***************************************************************************)
LEMMA SameReferences ==
  ASSUME RefInv, UNCHANGED <<block_table, ref_count>>,
         \A s \in Request : Held(s)' = Held(s)
  PROVE  RefInv'
<1>1. ASSUME NEW b \in BlockId PROVE References(b)' = References(b)
  <2>1. \A x \in References(b) : \E u, i : x = <<u, i>>
    BY ReferencesArePairs
  <2>2. \A u, i : <<u, i>> \in References(b) <=>
                    u \in Request /\ i \in Held(u)' /\ block_table'[u][i] = b
    BY ReferenceMember
  <2> QED
    BY <2>1, <2>2, ReferencesByPairs
<1> QED
  BY <1>1 DEF RefInv, RefCountExact

(***************************************************************************)
(* Outside swap_out, every entry of a page table is held.                  *)
(***************************************************************************)
LEMMA HeldOutsideSwapOut ==
  /\ op # "swap_out" => \A s \in Request : Held(s) = DOMAIN block_table[s]
  /\ op' # "swap_out" => \A s \in Request : Held(s)' = DOMAIN block_table'[s]
BY DEF Held

(***************************************************************************)
(* A page table that has grown by one block.                               *)
(***************************************************************************)
LEMMA AppendReference ==
  ASSUME TypeOK, op # "swap_out", op' # "swap_out",
         NEW s \in Request, NEW b \in BlockId,
         block_table' = [block_table EXCEPT ![s] = Append(block_table[s], b)]
  PROVE  LET x == <<s, Len(block_table[s]) + 1>>
         IN /\ x \notin References(b)
            /\ References(b)' = References(b) \cup {x}
            /\ \A c \in BlockId \ {b} : References(c)' = References(c)
<1> DEFINE n == Len(block_table[s])
           x == <<s, n + 1>>
<1>1. /\ block_table[s] \in Seq(BlockId)
      /\ n \in Nat
      /\ DOMAIN block_table[s] = 1 .. n
  BY LenProperties DEF TypeOK
<1>2. /\ DOMAIN block_table'[s] = 1 .. n + 1
      /\ \A i \in 1 .. n : block_table'[s][i] = block_table[s][i]
      /\ block_table'[s][n + 1] = b
  <2>1. block_table'[s] = Append(block_table[s], b)
    BY DEF TypeOK
  <2> QED
    BY <1>1, <2>1, AppendProperties, LenProperties
<1>3. \A u \in Request \ {s} : block_table'[u] = block_table[u]
  BY DEF TypeOK
<1>4. \A u \in Request : Held(u) = DOMAIN block_table[u] /\ Held(u)' = DOMAIN block_table'[u]
  BY HeldOutsideSwapOut
<1> HIDE DEF n
<1>5. \A u \in Request : Held(u)' = IF u = s THEN Held(u) \cup {n + 1} ELSE Held(u)
  BY <1>1, <1>2, <1>3, <1>4
<1>6. n + 1 \notin Held(s) /\ Held(s) = 1 .. n
  BY <1>1, <1>4
<1>7. x \notin References(b)
  BY <1>6, ReferenceMember
<1>8. ASSUME NEW c \in BlockId, NEW S, S = IF c = b THEN References(c) \cup {x} ELSE References(c)
      PROVE  References(c)' = S
  <2>1. \A y \in S : \E u, i : y = <<u, i>>
    BY <1>8, ReferencesArePairs
  <2>2. ASSUME NEW u, NEW i
        PROVE <<u, i>> \in S <=> u \in Request /\ i \in Held(u)' /\ block_table'[u][i] = c
    <3>1. <<u, i>> \in S <=> \/ u \in Request /\ i \in Held(u) /\ block_table[u][i] = c
                             \/ c = b /\ u = s /\ i = n + 1
      BY <1>8, ReferenceMember
    <3>2. CASE u = s
      BY <1>2, <1>5, <1>6, <3>1, <3>2
    <3>3. CASE u # s
      BY <1>3, <1>5, <3>1, <3>3
    <3> QED
      BY <3>2, <3>3
  <2> QED
    BY <2>1, <2>2, ReferencesByPairs
<1> QED
  BY <1>7, <1>8 DEF n

(***************************************************************************)
(* A page table that has lost its last block.                              *)
(***************************************************************************)
LEMMA FrontReference ==
  ASSUME TypeOK, op # "swap_out", op' # "swap_out",
         NEW s \in Request, block_table[s] # <<>>,
         NEW b \in BlockId, b = Last(block_table[s]),
         block_table' = [block_table EXCEPT ![s] = Front(block_table[s])]
  PROVE  LET x == <<s, Len(block_table[s])>>
         IN /\ x \in References(b)
            /\ References(b)' = References(b) \ {x}
            /\ \A c \in BlockId \ {b} : References(c)' = References(c)
<1> DEFINE n == Len(block_table[s])
           x == <<s, n>>
<1>1. /\ block_table[s] \in Seq(BlockId)
      /\ n \in Nat \ {0}
      /\ DOMAIN block_table[s] = 1 .. n
      /\ b = block_table[s][n]
  BY EndsType, LenProperties DEF TypeOK, Last
<1>2. /\ DOMAIN block_table'[s] = 1 .. n - 1
      /\ \A i \in 1 .. n - 1 : block_table'[s][i] = block_table[s][i]
  <2>1. block_table'[s] = SubSeq(block_table[s], 1, n - 1)
    BY DEF TypeOK, Front
  <2> HIDE DEF n
  <2>2. \A i \in 1 .. n - 1 : block_table[s][i] \in BlockId
    BY <1>1, ElementOfSeq DEF n
  <2>3. /\ SubSeq(block_table[s], 1, n - 1) \in Seq(BlockId)
        /\ Len(SubSeq(block_table[s], 1, n - 1)) = IF 1 <= n - 1 THEN n - 1 - 1 + 1 ELSE 0
        /\ \A i \in 1 .. n - 1 - 1 + 1 :
             SubSeq(block_table[s], 1, n - 1)[i] = block_table[s][1 + i - 1]
    BY <1>1, <2>2, SubSeqProperties
  <2>4. Len(SubSeq(block_table[s], 1, n - 1)) = n - 1
    BY <1>1, <2>3
  <2>5. \A i \in 1 .. n - 1 : SubSeq(block_table[s], 1, n - 1)[i] = block_table[s][i]
    BY <1>1, <2>3
  <2> QED
    BY <2>1, <2>3, <2>4, <2>5, LenProperties
<1>3. \A u \in Request \ {s} : block_table'[u] = block_table[u]
  BY DEF TypeOK
<1>4. \A u \in Request : Held(u) = DOMAIN block_table[u] /\ Held(u)' = DOMAIN block_table'[u]
  BY HeldOutsideSwapOut
<1> HIDE DEF n
<1>5. \A u \in Request : Held(u)' = IF u = s THEN Held(u) \ {n} ELSE Held(u)
  BY <1>1, <1>2, <1>3, <1>4
<1>6. Held(s) = 1 .. n /\ n \in Held(s)
  BY <1>1, <1>4
<1>7. x \in References(b)
  BY <1>1, <1>6, ReferenceMember
<1>8. ASSUME NEW c \in BlockId, NEW S, S = IF c = b THEN References(c) \ {x} ELSE References(c)
      PROVE  References(c)' = S
  <2>1. \A y \in S : \E u, i : y = <<u, i>>
    BY <1>8, ReferencesArePairs
  <2>2. ASSUME NEW u, NEW i
        PROVE <<u, i>> \in S <=> u \in Request /\ i \in Held(u)' /\ block_table'[u][i] = c
    <3>1. <<u, i>> \in S <=> /\ u \in Request /\ i \in Held(u) /\ block_table[u][i] = c
                             /\ ~ (u = s /\ i = n)
      BY <1>1, <1>8, ReferenceMember
    <3>2. CASE u = s
      BY <1>1, <1>2, <1>5, <1>6, <3>1, <3>2
    <3>3. CASE u # s
      BY <1>3, <1>5, <3>1, <3>3
    <3> QED
      BY <3>2, <3>3
  <2> QED
    BY <2>1, <2>2, ReferencesByPairs
<1> QED
  BY <1>7, <1>8 DEF n

-----------------------------------------------------------------------------
(* The invariant is inductive, relative to TypeInv.                        *)

PoolInv == PoolPartition /\ RefInv

LEMMA InitPool ==
  ASSUME Init
  PROVE  PoolInv
<1>1. /\ IsInjective(free_block_ids)
      /\ Range(free_block_ids) = BlockId
  <2>1. free_block_ids = [i \in 1 .. NumKvBlocks |-> i - 1]
    BY DEF Init
  <2>2. \A b \in BlockId : b + 1 \in 1 .. NumKvBlocks /\ b = b + 1 - 1
    BY BlockManagerAssumption DEF BlockId
  <2>3. \A i \in 1 .. NumKvBlocks : i - 1 \in BlockId
    BY BlockManagerAssumption DEF BlockId
  <2>4. IsInjective(free_block_ids)
    BY <2>1, BlockManagerAssumption DEF IsInjective
  <2>5. ASSUME NEW b \in BlockId PROVE b \in Range(free_block_ids)
    <3>1. b + 1 \in DOMAIN free_block_ids
      BY <2>1, <2>2
    <3>2. \A i \in 1 .. NumKvBlocks : free_block_ids[i] = i - 1
      BY <2>1
    <3>3. free_block_ids[b + 1] = b
      <4>1. b \in Int
        BY BlockManagerAssumption DEF BlockId
      <4> QED
        BY <2>2, <3>2, <4>1
    <3> QED
      BY <3>1, <3>3 DEF Range
  <2>6. \A b \in Range(free_block_ids) : b \in BlockId
    BY <2>1, <2>3 DEF Range
  <2> QED
    BY <2>4, <2>5, <2>6
<1>2. PoolPartition
  BY <1>1 DEF Init, PoolPartition
<1>3. ASSUME NEW b \in BlockId PROVE References(b) = {}
  <2>1. \A s \in Request : Held(s) = {}
    BY DEF Init, Held
  <2> QED
    BY <2>1 DEF References
<1>4. RefInv
  BY <1>3, FS_EmptySet DEF Init, RefInv, RefCountExact
<1> QED
  BY <1>2, <1>4 DEF PoolInv

(***************************************************************************)
(* Steps that leave the pool and the page tables alone.                    *)
(***************************************************************************)
LEMMA QuietStepPool ==
  ASSUME PoolInv, UNCHANGED <<block_table, poolVars>>,
         \A s \in Request : Held(s)' = Held(s)
  PROVE  PoolInv'
<1>1. PoolPartition'
  BY DEF PoolInv, PoolPartition, poolVars
<1>2. RefInv'
  BY SameReferences DEF PoolInv, poolVars
<1> QED
  BY <1>1, <1>2 DEF PoolInv

LEMMA QuietCallPool ==
  ASSUME PoolInv, UNCHANGED <<block_table, poolVars>>, op # "swap_out", op' # "swap_out"
  PROVE  PoolInv'
<1>1. \A s \in Request : Held(s)' = Held(s)
  BY HeldOutsideSwapOut
<1> QED
  BY <1>1, QuietStepPool

LEMMA StutterPool ==
  ASSUME PoolInv, UNCHANGED vars
  PROVE  PoolInv'
<1>1. \A s \in Request : Held(s)' = Held(s)
  BY DEF Held, vars, callVars
<1> QED
  BY <1>1, QuietStepPool DEF vars

LEMMA PreemptPool ==
  ASSUME TypeInv, PoolInv, NEW s \in Request, Preempt(s)
  PROVE  PoolInv'
<1>1. op = "idle" /\ UNCHANGED <<block_table, cpu_block_table, poolVars>>
  BY DEF Preempt, Idle
<1>2. cpu_block_table[s] = <<>> /\ block_table[s] \in Seq(BlockId)
  BY BlockManagerAssumption DEF TypeInv, TypeOK, TablesFollowStatus, Preempt, Idle
<1>3. CASE op' = "deallocate"
  BY <1>1, <1>3, QuietCallPool
<1>4. CASE op' = "swap_out" /\ cur' = s
  <2>1. \A i \in DOMAIN block_table[s] : i > Len(cpu_block_table[s])
    BY <1>2, LenProperties, EmptySeq
  <2>2. \A u \in Request : Held(u)' = Held(u)
    BY <1>1, <1>4, <2>1 DEF Held
  <2> QED
    BY <1>1, <2>2, QuietStepPool
<1> QED
  BY <1>3, <1>4 DEF Preempt, Call

LEMMA AllocateStepPool ==
  ASSUME TypeInv, PoolInv, AllocateStep
  PROVE  PoolInv'
<1>1. /\ op = "allocate"
      /\ cur \in Request
      /\ free_block_ids \in Seq(BlockId)
      /\ NextHash \in Seq(Token)
      /\ TypeOK
  BY NextBlockType DEF TypeInv, TypeOK, AllocateStep, AllocateMiss, AllocateShared, AllocateRevived
<1>2. ASSUME NEW b \in BlockId, AddToTable(b)
      PROVE  /\ op' # "swap_out"
             /\ block_table' = [block_table EXCEPT ![cur] = Append(block_table[cur], b)]
  BY <1>1, <1>2 DEF AddToTable, Return, Call
<1>3. ASSUME NEW b \in BlockId, AddToTable(b), b \notin used_block_ids, allocate_block(b)
      PROVE  PoolInv'
  <2>1. PoolPartition'
    BY <1>1, <1>3, AllocateBlockPartition DEF PoolInv
  <2>2. ref_count \in [BlockId -> Int] /\ ref_count[b] = 0
    BY <1>1, <1>3, CountsOfPool DEF PoolInv
  <2>3. /\ ref_count'[b] = ref_count[b] + 1
        /\ \A c \in BlockId \ {b} : ref_count'[c] = ref_count[c]
    BY <1>3, <2>2 DEF allocate_block
  <2>4. RefInv'
    BY <1>1, <1>2, <1>3, <2>3, AppendReference, OneMore DEF PoolInv
  <2> QED
    BY <2>1, <2>4 DEF PoolInv
<1>4. CASE AllocateMiss
  <2>1. num_blocks(cur) \in Nat /\ Len(block_table[cur]) \in Nat /\ Len(free_block_ids) \in Nat
    BY <1>1, NumBlocksPositive, LenProperties DEF TypeOK
  <2>2. free_block_ids # <<>>
    BY <1>1, <2>1, EmptySeq DEF TypeInv, MethodHasRoom
  <2>3. Head(free_block_ids) \in BlockId /\ Head(free_block_ids) \notin used_block_ids
    BY <1>1, <2>2, EndsType, TailRange DEF PoolInv, PoolPartition
  <2> QED
    BY <1>3, <1>4, <2>3 DEF AllocateMiss
<1>5. CacheHit => hash_to_block_id[NextHash] \in BlockId
  BY <1>1 DEF CacheHit, TypeOK
<1>6. CASE AllocateShared
  <2> DEFINE b == hash_to_block_id[NextHash]
  <2>1. b \in BlockId /\ b \in used_block_ids /\ ShareBlock(b) /\ AddToTable(b)
    BY <1>5, <1>6 DEF AllocateShared
  <2> HIDE DEF b
  <2>2. PoolPartition'
    BY <1>1, <2>1, ShareBlockPartition DEF PoolInv
  <2>3. /\ ref_count'[b] = ref_count[b] + 1
        /\ \A c \in BlockId \ {b} : ref_count'[c] = ref_count[c]
    BY <1>1, <2>1 DEF ShareBlock, TypeOK
  <2>4. RefInv'
    BY <1>1, <1>2, <2>1, <2>3, AppendReference, OneMore DEF PoolInv
  <2> QED
    BY <2>2, <2>4 DEF PoolInv
<1>7. CASE AllocateRevived
  BY <1>3, <1>5, <1>7 DEF AllocateRevived
<1> QED
  BY <1>4, <1>6, <1>7 DEF AllocateStep

LEMMA DeallocateStepPool ==
  ASSUME TypeInv, PoolInv, DeallocateStep
  PROVE  PoolInv'
<1>1. /\ TypeOK
      /\ op = "deallocate"
      /\ cur \in Request
      /\ block_table[cur] \in Seq(BlockId)
      /\ block_table[cur] # <<>>
  BY BlockManagerAssumption DEF TypeInv, TypeOK, MethodHasRoom, DeallocateStep
<1>2. PICK b \in BlockId : b = Last(block_table[cur])
  BY <1>1, EndsType
<1> DEFINE x == <<cur, Len(block_table[cur])>>
<1>3. /\ op' # "swap_out"
      /\ ReleaseBlock(b)
      /\ block_table' = [block_table EXCEPT ![cur] = Front(block_table[cur])]
  BY <1>1, <1>2 DEF DeallocateStep, Return, Call, callVars
<1>4. /\ x \in References(b)
      /\ References(b)' = References(b) \ {x}
      /\ \A c \in BlockId \ {b} : References(c)' = References(c)
  BY <1>1, <1>3, <1>2, FrontReference
<1> HIDE DEF x
<1>5. ref_count[b] > 0
  BY <1>2, <1>4, ReferencedCounts DEF PoolInv
<1>6. PoolPartition'
  BY <1>1, <1>3, <1>2, <1>5, ReleaseBlockPartition DEF PoolInv
<1>7. /\ ref_count'[b] = ref_count[b] - 1
      /\ \A c \in BlockId \ {b} : ref_count'[c] = ref_count[c]
  BY <1>1, <1>3, <1>2 DEF ReleaseBlock, TypeOK
<1>8. RefInv'
  BY <1>1, <1>4, <1>7, OneLess DEF PoolInv
<1> QED
  BY <1>6, <1>8 DEF PoolInv

(***************************************************************************)
(* swap_out gives back the entry behind those it has moved.                *)
(***************************************************************************)
LEMMA SwapOutReference ==
  ASSUME TypeInv, SwapOutStep, NEW s \in Request, s = cur,
         NEW n, n = Len(cpu_block_table[s])
  PROVE  \E b \in BlockId :
           /\ b = block_table[s][n + 1]
           /\ ReleaseBlock(b)
           /\ <<s, n + 1>> \in References(b)
           /\ References(b)' = References(b) \ {<<s, n + 1>>}
           /\ \A c \in BlockId \ {b} : References(c)' = References(c)
<1>1. PICK m : m = Len(block_table[s])
  OBVIOUS
<1>2. PICK b : b = block_table[s][n + 1]
  OBVIOUS
<1> DEFINE x == <<s, n + 1>>
<1>3. /\ TypeOK
      /\ op = "swap_out"
      /\ block_table[s] \in Seq(BlockId)
      /\ cpu_block_table[s] \in Seq(CpuBlockId)
      /\ cpu_free_block_ids \in Seq(CpuBlockId)
  BY DEF TypeInv, TypeOK, SwapOutStep
<1>4. /\ n \in Nat
      /\ m \in Nat
      /\ n < m
      /\ DOMAIN block_table[s] = 1 .. m
      /\ m <= n + Len(cpu_free_block_ids)
  BY <1>1, <1>3, LenProperties DEF TypeInv, MethodHasRoom
<1>5. b \in BlockId
  BY <1>1, <1>2, <1>3, <1>4, ElementOfSeq
<1>6. cpu_block_table' =
        [cpu_block_table EXCEPT ![s] = Append(cpu_block_table[s], Head(cpu_free_block_ids))]
  BY DEF SwapOutStep
<1>7. Len(cpu_block_table'[s]) = n + 1
  <2>1. cpu_free_block_ids # <<>>
    <3>1. Len(cpu_free_block_ids) \in Nat
      BY <1>3, LenProperties
    <3> QED
      BY <1>3, <1>4, <3>1, EmptySeq
  <2>2. Head(cpu_free_block_ids) \in CpuBlockId
    BY <1>3, <2>1, EndsType
  <2> QED
    BY <1>3, <1>6, <2>2, AppendType DEF TypeOK
<1>8. ReleaseBlock(b)
  BY <1>2 DEF SwapOutStep
<1>9. \/ /\ n + 1 < m
          /\ UNCHANGED <<block_table, op, cur>>
       \/ /\ n + 1 = m
          /\ block_table' = [block_table EXCEPT ![s] = <<>>]
          /\ op' = "idle"
  BY <1>1 DEF SwapOutStep, callVars, Return, Call
<1>10. \A u \in Request \ {s} : block_table'[u] = block_table[u]
  BY <1>3, <1>9 DEF TypeOK
<1>11. ASSUME NEW u \in Request \ {s} PROVE Held(u)' = Held(u)
  BY <1>3, <1>9, <1>10 DEF Held
<1>12. Held(s) = n + 1 .. m
  BY <1>3, <1>4 DEF Held
<1>13. /\ Held(s)' = n + 2 .. m
       /\ \A i \in Held(s)' : block_table'[s][i] = block_table[s][i]
  <2>1. CASE n + 1 < m /\ UNCHANGED <<block_table, op, cur>>
    <3>1. Held(s)' = {i \in 1 .. m : i > n + 1}
      BY <1>3, <1>4, <1>7, <2>1 DEF Held
    <3> QED
      BY <1>4, <2>1, <3>1
  <2>2. CASE n + 1 = m /\ block_table' = [block_table EXCEPT ![s] = <<>>]
    <3>1. block_table'[s] = <<>>
      BY <1>3, <2>2 DEF TypeOK
    <3>2. Held(s)' = {}
      BY <3>1 DEF Held
    <3>3. n + 2 .. m = {}
      BY <1>4, <2>2
    <3> QED
      BY <3>2, <3>3
  <2> QED
    BY <1>9, <2>1, <2>2
<1>14. x \in References(b)
  BY <1>2, <1>4, <1>12, ReferenceMember
<1>15. ASSUME NEW c \in BlockId, NEW S, S = IF c = b THEN References(c) \ {x} ELSE References(c)
       PROVE  References(c)' = S
  <2>1. \A y \in S : \E u, i : y = <<u, i>>
    BY <1>15, ReferencesArePairs
  <2>2. ASSUME NEW u, NEW i
        PROVE <<u, i>> \in S <=> u \in Request /\ i \in Held(u)' /\ block_table'[u][i] = c
    <3>1. <<u, i>> \in S <=> /\ u \in Request /\ i \in Held(u) /\ block_table[u][i] = c
                             /\ ~ (u = s /\ i = n + 1)
      BY <1>2, <1>15, ReferenceMember
    <3>2. CASE u = s
      <4>1. i \in Held(s)' <=> i \in Held(s) /\ i # n + 1
        BY <1>4, <1>12, <1>13
      <4> QED
        BY <1>13, <3>1, <3>2, <4>1
    <3>3. CASE u # s
      BY <1>10, <1>11, <3>1, <3>3
    <3> QED
      BY <3>2, <3>3
  <2> QED
    BY <2>1, <2>2, ReferencesByPairs
<1>16. References(b)' = References(b) \ {x}
  BY <1>5, <1>15
<1>17. \A c \in BlockId \ {b} : References(c)' = References(c)
  BY <1>15
<1> QED
  BY <1>2, <1>5, <1>8, <1>14, <1>16, <1>17

LEMMA SwapOutStepPool ==
  ASSUME TypeInv, PoolInv, SwapOutStep
  PROVE  PoolInv'
<1>1. PICK s \in Request : s = cur
  BY BlockManagerAssumption DEF TypeInv, TypeOK, SwapOutStep
<1>2. PICK n : n = Len(cpu_block_table[s])
  OBVIOUS
<1>3. PICK x : x = <<s, n + 1>>
  OBVIOUS
<1>4. PICK b \in BlockId :
        /\ ReleaseBlock(b)
        /\ x \in References(b)
        /\ References(b)' = References(b) \ {x}
        /\ \A c \in BlockId \ {b} : References(c)' = References(c)
  BY <1>1, <1>2, <1>3, SwapOutReference
<1>5. ref_count[b] > 0
  BY <1>4, ReferencedCounts DEF PoolInv
<1>6. PoolPartition'
  BY <1>4, <1>5, ReleaseBlockPartition DEF PoolInv, TypeInv
<1>7. /\ ref_count'[b] = ref_count[b] - 1
      /\ \A c \in BlockId \ {b} : ref_count'[c] = ref_count[c]
  BY <1>4 DEF ReleaseBlock, TypeInv, TypeOK
<1>8. RefInv'
  BY <1>4, <1>7, OneLess DEF PoolInv, TypeInv
<1> QED
  BY <1>6, <1>8 DEF PoolInv

(***************************************************************************)
(* free_block_ids.popleft() followed by ref_count = 1 and used.add.        *)
(***************************************************************************)
LEMMA PopPartition ==
  ASSUME TypeOK, PoolPartition, free_block_ids # <<>>,
         free_block_ids' = Tail(free_block_ids),
         used_block_ids' = used_block_ids \cup {Head(free_block_ids)},
         \A c \in BlockId \ {Head(free_block_ids)} :
           ref_count'[c] >= 0 /\ (ref_count'[c] > 0 <=> ref_count[c] > 0),
         ref_count'[Head(free_block_ids)] = 1
  PROVE  PoolPartition'
<1> DEFINE new == Head(free_block_ids)
<1>1. /\ new \in BlockId
      /\ new \in Range(free_block_ids)
      /\ IsInjective(Tail(free_block_ids))
      /\ Range(Tail(free_block_ids)) = Range(free_block_ids) \ {new}
  BY EndsType, TailRange DEF TypeOK, PoolPartition
<1> HIDE DEF new
<1>2. \A c \in BlockId : ref_count'[c] >= 0 /\ (c \in used_block_ids' <=> ref_count'[c] > 0)
  BY <1>1 DEF PoolPartition, new
<1> QED
  BY <1>1, <1>2 DEF PoolPartition, new

LEMMA SwapInStepPool ==
  ASSUME TypeInv, PoolInv, SwapInStep
  PROVE  PoolInv'
<1> DEFINE new == Head(free_block_ids)
<1>1. /\ TypeOK
      /\ op = "swap_in"
      /\ cur \in Request
      /\ block_table[cur] \in Seq(BlockId)
      /\ free_block_ids \in Seq(BlockId)
  BY BlockManagerAssumption DEF TypeInv, TypeOK, SwapInStep
<1>2. free_block_ids # <<>>
  <2>1. /\ cpu_block_table[cur] \in Seq(CpuBlockId)
        /\ Len(block_table[cur]) < Len(cpu_block_table[cur])
        /\ Len(cpu_block_table[cur]) <= Len(block_table[cur]) + Len(free_block_ids)
    BY <1>1 DEF TypeInv, TypeOK, MethodHasRoom
  <2>2. /\ Len(block_table[cur]) \in Nat
        /\ Len(cpu_block_table[cur]) \in Nat
        /\ Len(free_block_ids) \in Nat
    BY <1>1, <2>1, LenProperties
  <2> QED
    BY <1>1, <2>1, <2>2, EmptySeq
<1>3. /\ new \in BlockId
      /\ new \notin used_block_ids
      /\ ref_count[new] = 0
  <2>1. new \in BlockId /\ new \in Range(free_block_ids)
    BY <1>1, <1>2, EndsType, TailRange DEF PoolInv, PoolPartition
  <2> QED
    BY <1>1, <2>1 DEF PoolInv, PoolPartition, TypeOK
<1>4. /\ free_block_ids' = Tail(free_block_ids)
      /\ used_block_ids' = used_block_ids \cup {new}
      /\ ref_count' = [ref_count EXCEPT ![new] = 1]
      /\ block_table' = [block_table EXCEPT ![cur] = Append(block_table[cur], new)]
      /\ op' # "swap_out"
  BY <1>1 DEF SwapInStep, Return, Call
<1>5. /\ ref_count'[new] = 1
      /\ \A c \in BlockId \ {new} : ref_count'[c] = ref_count[c]
  BY <1>1, <1>3, <1>4 DEF TypeOK
<1>6. PoolPartition'
  BY <1>1, <1>2, <1>4, <1>5, PopPartition DEF PoolInv, PoolPartition
<1>7. RefInv'
  <2>1. PICK b \in BlockId : b = new
    BY <1>3
  <2> HIDE DEF new
  <2>2. LET x == <<cur, Len(block_table[cur]) + 1>>
        IN /\ x \notin References(b)
           /\ References(b)' = References(b) \cup {x}
           /\ \A c \in BlockId \ {b} : References(c)' = References(c)
    BY <1>1, <1>4, <2>1, AppendReference
  <2>3. ref_count'[b] = ref_count[b] + 1
    BY <1>3, <1>5, <2>1
  <2> QED
    BY <1>1, <1>5, <2>1, <2>2, <2>3, OneMore DEF PoolInv
<1> QED
  BY <1>6, <1>7 DEF PoolInv

\* copy_on_write found the last block of s shared.
CopiesLastBlock(s) ==
  /\ op = "idle"
  /\ ref_count[last_block(s)] > 1
  /\ free_block_ids # <<>>
  /\ free_block_ids' = Tail(free_block_ids)
  /\ used_block_ids' = used_block_ids \cup {Head(free_block_ids)}
  /\ ref_count' = [ref_count EXCEPT ![Head(free_block_ids)] = 1, ![last_block(s)] = @ - 1]
  /\ block_table' =
       [block_table EXCEPT ![s][Len(block_table[s])] = Head(free_block_ids)]
  /\ Call("may_append", s)

(***************************************************************************)
(* copy_on_write moves one reference from the shared block to a free one.  *)
(***************************************************************************)
LEMMA CopyReference ==
  ASSUME TypeInv, PoolInv, NEW s \in Request, block_table[s] # <<>>, CopiesLastBlock(s)
  PROVE  \E old, new \in BlockId :
           LET x == <<s, Len(block_table[s])>>
           IN /\ old = last_block(s) /\ new = Head(free_block_ids)
              /\ ref_count[new] = 0 /\ ref_count[old] > 1
              /\ x \in References(old) /\ x \notin References(new)
              /\ References(new)' = References(new) \cup {x}
              /\ References(old)' = References(old) \ {x}
              /\ \A c \in BlockId \ {new, old} : References(c)' = References(c)
<1> USE DEF CopiesLastBlock
<1>1. /\ TypeOK
      /\ op = "idle"
      /\ block_table[s] \in Seq(BlockId)
      /\ block_table[s] # <<>>
      /\ free_block_ids \in Seq(BlockId)
  BY DEF TypeInv, TypeOK
<1>2. PICK n : n = Len(block_table[s])
  OBVIOUS
<1>3. /\ n \in Nat \ {0}
      /\ DOMAIN block_table[s] = 1 .. n
  BY <1>1, <1>2, EndsType, LenProperties
<1>4. PICK old \in BlockId : old = last_block(s)
  BY <1>1, EndsType DEF last_block
<1>5. old = block_table[s][n]
  BY <1>2, <1>4 DEF last_block, Last
<1>6. PICK new \in BlockId : new = Head(free_block_ids)
  BY <1>1, EndsType
<1>7. new \in Range(free_block_ids)
  BY <1>1, <1>6, TailRange DEF PoolInv, PoolPartition
<1>8. /\ ref_count[new] = 0
      /\ ref_count[old] > 1
      /\ new # old
  <2>1. new \notin used_block_ids
    BY <1>7 DEF PoolInv, PoolPartition
  <2> QED
    BY <1>1, <1>4, <2>1, CountsOfPool DEF PoolInv
<1>9. block_table' = [block_table EXCEPT ![s] = [block_table[s] EXCEPT ![n] = new]]
  BY <1>2, <1>6
<1>10. /\ DOMAIN block_table'[s] = 1 .. n
       /\ \A i \in 1 .. n : block_table'[s][i] = IF i = n THEN new ELSE block_table[s][i]
       /\ \A u \in Request \ {s} : block_table'[u] = block_table[u]
  <2>1. block_table \in [Request -> Seq(BlockId)]
    BY <1>1 DEF TypeOK
  <2>2. /\ block_table'[s] = [block_table[s] EXCEPT ![n] = new]
        /\ \A u \in Request \ {s} : block_table'[u] = block_table[u]
    BY <1>9, <2>1
  <2> QED
    BY <1>3, <2>2
<1>11. \A u \in Request : /\ Held(u) = DOMAIN block_table[u]
                          /\ Held(u)' = DOMAIN block_table'[u]
  BY <1>1, HeldOutsideSwapOut DEF Call
<1> DEFINE x == <<s, n>>
           after(c) == IF c = new THEN References(c) \cup {x}
                       ELSE IF c = old THEN References(c) \ {x} ELSE References(c)
<1>12. ASSUME NEW c \in BlockId, NEW S, S = after(c)
       PROVE  References(c)' = S
  <2>1. \A y \in S : \E u, i : y = <<u, i>>
    BY <1>12, ReferencesArePairs
  <2>2. ASSUME NEW u, NEW i
        PROVE <<u, i>> \in S <=> u \in Request /\ i \in Held(u)' /\ block_table'[u][i] = c
    <3>1. <<u, i>> \in References(c) <=> u \in Request /\ i \in Held(u) /\ block_table[u][i] = c
      BY ReferenceMember
    <3>2. <<u, i>> = x <=> u = s /\ i = n
      OBVIOUS
    <3>3. CASE u = s /\ i = n
      <4>1. <<u, i>> \in S <=> c = new
        BY <1>5, <1>8, <1>12, <3>1, <3>2, <3>3
      <4>2. i \in Held(u)' /\ block_table'[u][i] = new
        BY <1>3, <1>10, <1>11, <3>3
      <4> QED
        BY <3>3, <4>1, <4>2
    <3>4. CASE ~ (u = s /\ i = n)
      <4>1. <<u, i>> \in S <=> <<u, i>> \in References(c)
        BY <1>12, <3>2, <3>4
      <4>2. u \in Request => /\ i \in Held(u)' <=> i \in Held(u)
                             /\ i \in Held(u) => block_table'[u][i] = block_table[u][i]
        BY <1>3, <1>10, <1>11, <3>4
      <4> QED
        BY <3>1, <4>1, <4>2
    <3> QED
      BY <3>3, <3>4
  <2> QED
    BY <2>1, <2>2, ReferencesByPairs
<1>13. x \in References(old) /\ x \notin References(new)
  <2>1. x \in References(old)
    BY <1>3, <1>5, <1>11, ReferenceMember
  <2>2. x \notin References(new)
    BY <1>5, <1>8, ReferenceMember
  <2> QED
    BY <2>1, <2>2
<1>14. /\ References(new)' = References(new) \cup {x}
       /\ References(old)' = References(old) \ {x}
       /\ \A c \in BlockId \ {new, old} : References(c)' = References(c)
  BY <1>8, <1>12
<1> HIDE DEF x
<1> QED
  BY <1>2, <1>4, <1>6, <1>8, <1>13, <1>14 DEF x

LEMMA CopyOnWritePool ==
  ASSUME TypeInv, PoolInv, NEW s \in Request, CopyOnWrite(s)
  PROVE  PoolInv'
<1>1. TypeOK /\ op = "idle" /\ block_table[s] # <<>>
  BY DEF TypeInv, TablesFollowStatus, CopyOnWrite, Idle
<1>2. CASE Call("may_append", s) /\ UNCHANGED <<block_table, poolVars>>
  BY <1>1, <1>2, QuietCallPool DEF Call
<1>3. CASE UNCHANGED <<block_table, poolVars, callVars>>
  BY <1>1, <1>3, QuietCallPool DEF callVars
<1>4. CASE CopiesLastBlock(s)
  <2>1. PICK x : x = <<s, Len(block_table[s])>>
    OBVIOUS
  <2>2. PICK old, new \in BlockId :
          /\ old = last_block(s) /\ new = Head(free_block_ids)
          /\ ref_count[new] = 0 /\ ref_count[old] > 1
          /\ x \in References(old) /\ x \notin References(new)
          /\ References(new)' = References(new) \cup {x}
          /\ References(old)' = References(old) \ {x}
          /\ \A c \in BlockId \ {new, old} : References(c)' = References(c)
    BY <1>1, <1>4, <2>1, CopyReference
  <2>3. /\ ref_count'[new] = 1
        /\ ref_count'[old] = ref_count[old] - 1
        /\ \A c \in BlockId \ {new, old} : ref_count'[c] = ref_count[c]
    <3>1. ref_count' = [ref_count EXCEPT ![new] = 1, ![old] = @ - 1]
      BY <1>4, <2>2 DEF CopiesLastBlock
    <3>2. ref_count \in [BlockId -> Int] /\ new # old
      BY <1>1, <2>2 DEF TypeOK
    <3> QED
      BY <3>1, <3>2
  <2>4. PoolPartition'
    <3>1. \A c \in BlockId \ {new} :
             ref_count'[c] >= 0 /\ (ref_count'[c] > 0 <=> ref_count[c] > 0)
      <4>1. \A c \in BlockId : ref_count[c] \in Int /\ ref_count[c] >= 0
        BY <1>1 DEF PoolInv, PoolPartition, TypeOK
      <4>2. ref_count'[old] >= 0 /\ ref_count'[old] > 0 /\ ref_count[old] > 0
        BY <2>2, <2>3, <4>1
      <4> QED
        BY <2>3, <4>1, <4>2
    <3> QED
      BY <1>1, <1>4, <2>2, <2>3, <3>1, PopPartition DEF PoolInv, CopiesLastBlock
  <2>5. \A c \in BlockId : /\ IsFiniteSet(References(c))
                           /\ ref_count[c] = Cardinality(References(c))
    BY DEF PoolInv, RefInv, RefCountExact
  <2>6. /\ IsFiniteSet(References(new)')
        /\ Cardinality(References(new)') = 1
    BY <2>2, <2>5, FS_AddElement
  <2>7. /\ IsFiniteSet(References(old)')
        /\ Cardinality(References(old)') = ref_count[old] - 1
    BY <2>2, <2>5, FS_RemoveElement
  <2>8. RefInv'
    BY <2>2, <2>3, <2>5, <2>6, <2>7 DEF RefInv, RefCountExact
  <2> QED
    BY <2>4, <2>8 DEF PoolInv
<1> QED
  BY <1>1, <1>2, <1>3, <1>4 DEF CopyOnWrite, CopiesLastBlock

LEMMA AppendStepPool ==
  ASSUME TypeInv, PoolInv, AppendStep
  PROVE  PoolInv'
<1>1. TypeOK /\ op = "may_append"
  BY DEF TypeInv, AppendStep, AppendNewBlock, AppendFillsBlock, AppendInside,
         AppendRaises, Appending
<1>2. PICK s \in Request : s = cur
  BY <1>1, BlockManagerAssumption DEF TypeOK
<1>3. CASE AppendNewBlock
  <2>1. PICK b \in BlockId : b = Head(free_block_ids)
    BY <1>1, <1>3, EndsType DEF AppendNewBlock, TypeOK
  <2>2. b \notin used_block_ids
    BY <1>1, <1>3, <2>1, TailRange DEF AppendNewBlock, TypeOK, PoolInv, PoolPartition
  <2>3. /\ allocate_block(b)
        /\ block_table' = [block_table EXCEPT ![s] = Append(block_table[s], b)]
        /\ op' = "idle"
    BY <1>2, <1>3, <2>1 DEF AppendNewBlock, AppendDone, Return, Call
  <2>4. PoolPartition'
    BY <1>1, <2>2, <2>3, AllocateBlockPartition DEF PoolInv
  <2>5. /\ ref_count'[b] = ref_count[b] + 1
        /\ \A c \in BlockId \ {b} : ref_count'[c] = ref_count[c]
    <3>1. ref_count \in [BlockId -> Int] /\ ref_count[b] = 0
      BY <1>1, <2>2, CountsOfPool DEF PoolInv
    <3>2. ref_count' = [ref_count EXCEPT ![b] = 1]
      BY <2>3 DEF allocate_block
    <3> QED
      BY <3>1, <3>2
  <2>6. LET x == <<s, Len(block_table[s]) + 1>>
        IN /\ x \notin References(b)
           /\ References(b)' = References(b) \cup {x}
           /\ \A c \in BlockId \ {b} : References(c)' = References(c)
    BY <1>1, <2>3, AppendReference
  <2>7. RefInv'
    BY <1>1, <2>5, <2>6, OneMore DEF PoolInv
  <2> QED
    BY <2>4, <2>7 DEF PoolInv
<1>4. CASE AppendFillsBlock \/ AppendInside
  BY <1>1, <1>4, QuietCallPool
  DEF AppendFillsBlock, AppendInside, AppendDone, Return, Call
<1>5. CASE AppendRaises
  <2>1. UNCHANGED <<block_table, poolVars, callVars>>
    BY <1>5 DEF AppendRaises, Raise
  <2> QED
    BY <1>1, <2>1, QuietCallPool DEF callVars
<1> QED
  BY <1>3, <1>4, <1>5 DEF AppendStep

-----------------------------------------------------------------------------
(***************************************************************************)
(* For every pool, every set of requests and every client that respects    *)
(* the life cycle of a sequence, the free queue and the used set split the *)
(* blocks, and a reference count is the number of page table entries.      *)
(***************************************************************************)
THEOREM PoolInvariant == Spec => [](TypeInv /\ PoolInv)
<1>1. Init => PoolInv
  BY InitPool
<1>2. TypeInv /\ PoolInv /\ [Next]_vars => PoolInv'
  <2> SUFFICES ASSUME TypeInv, PoolInv, [Next]_vars
               PROVE  PoolInv'
    OBVIOUS
  <2>1. ASSUME NEW s \in Request,
               \/ NewSequence(s)
               \/ \E t \in Token : append_token(s, t)
               \/ \E n \in ChunkEnds : RecordComputed(s, n)
               \/ BeginAllocate(s) \/ BeginFinish(s) \/ BeginSwapIn(s)
        PROVE  PoolInv'
    <3>1. /\ op = "idle"
          /\ UNCHANGED <<block_table, poolVars>>
          /\ op' # "swap_out"
      BY <2>1 DEF NewSequence, append_token, RecordComputed, BeginAllocate,
                  BeginFinish, BeginSwapIn, Idle, Call, callVars
    <3> QED
      BY <3>1, QuietCallPool
  <2>2. ASSUME NEW s \in Request, Preempt(s) PROVE PoolInv'
    BY <2>2, PreemptPool
  <2>3. ASSUME NEW s \in Request, CopyOnWrite(s) PROVE PoolInv'
    BY <2>3, CopyOnWritePool
  <2>4. CASE AllocateStep
    BY <2>4, AllocateStepPool
  <2>5. CASE DeallocateStep
    BY <2>5, DeallocateStepPool
  <2>6. CASE SwapOutStep
    BY <2>6, SwapOutStepPool
  <2>7. CASE SwapInStep
    BY <2>7, SwapInStepPool
  <2>8. CASE AppendStep
    BY <2>8, AppendStepPool
  <2>9. CASE UNCHANGED vars
    BY <2>9, StutterPool
  <2> QED
    BY <2>1, <2>2, <2>3, <2>4, <2>5, <2>6, <2>7, <2>8, <2>9 DEF Next, Stopped
<1> QED
  BY <1>1, <1>2, TypeInvariant, PTL DEF Spec

(***************************************************************************)
(* ref_count is the number of page table entries that name the block.      *)
(***************************************************************************)
THEOREM RefCountsExact == Spec => []RefCountExact
<1>1. PoolInv => RefCountExact
  BY DEF PoolInv, RefInv
<1> QED
  BY <1>1, PoolInvariant, PTL

(***************************************************************************)
(* The free queue and the used set partition the GPU blocks.               *)
(***************************************************************************)
THEOREM PoolPartitioned == Spec => []PoolPartition
<1>1. PoolInv => PoolPartition
  BY DEF PoolInv
<1> QED
  BY <1>1, PoolInvariant, PTL

-----------------------------------------------------------------------------
(* The lengths of page tables.                                             *)

\* The tokens of a sequence that have a KV slot between two methods.
Slotted(s) == IF placed[s] THEN SeqLen(s) ELSE SeqLen(s) - 1

PagesFor(n) == (n + BlockSize - 1) \div BlockSize

(***************************************************************************)
(* TablesFitTokens, strengthened so that it also holds while a method is   *)
(* executing: swap_out and swap_in move whole tables, whose length is that *)
(* of the side the status still names, and may_append runs before the      *)
(* sampled token has a slot.                                               *)
(***************************************************************************)
FitsOnGpu(s) == status[s] = "running" => Len(block_table[s]) = PagesFor(Slotted(s))

FitsOnCpu(s) == status[s] = "swapped" => Len(cpu_block_table[s]) = PagesFor(Slotted(s))

FitInv ==
  /\ \A s \in Request : FitsOnGpu(s) /\ FitsOnCpu(s)
  /\ op = "may_append" => ~placed[cur]

(***************************************************************************)
(* Only the first token of a block asks for one page more.                 *)
(***************************************************************************)
LEMMA NextPage ==
  ASSUME NEW n \in Nat \ {0}
  PROVE  /\ n % BlockSize = 1 => PagesFor(n) = PagesFor(n - 1) + 1
         /\ n % BlockSize # 1 => PagesFor(n) = PagesFor(n - 1)
<1> DEFINE q == (n - 1) \div BlockSize
           r == (n - 1) % BlockSize
<1>1. /\ BlockSize \in Nat /\ BlockSize >= 2
      /\ q \in Nat /\ r \in 0 .. BlockSize - 1
      /\ n = q * BlockSize + r + 1
  BY BlockManagerAssumption
<1> HIDE DEF q, r
<1>2. PagesFor(n) = q + 1
  <2>1. n + BlockSize - 1 = (q + 1) * BlockSize + r
    BY <1>1
  <2>2. \A a \in Nat : (a * BlockSize + r) \div BlockSize = a
    BY <1>1
  <2> QED
    BY <1>1, <2>1, <2>2 DEF PagesFor
<1>3. CASE r = 0
  <2>1. n % BlockSize = 1
    <3>1. r + 1 < BlockSize /\ r + 1 \in Nat
      BY <1>1, <1>3
    <3>2. \A a \in Nat : (a * BlockSize + (r + 1)) % BlockSize = r + 1
      BY <1>1, <3>1
    <3>3. (q * BlockSize + (r + 1)) % BlockSize = r + 1
      BY <1>1, <3>2
    <3>4. n = q * BlockSize + (r + 1)
      BY <1>1
    <3> QED
      BY <1>3, <3>3, <3>4
  <2>2. n - 1 + BlockSize - 1 = q * BlockSize + (BlockSize - 1)
    BY <1>1, <1>3
  <2>3. \A a \in Nat : (a * BlockSize + (BlockSize - 1)) \div BlockSize = a
    BY <1>1
  <2>4. PagesFor(n - 1) = q
    BY <1>1, <2>2, <2>3 DEF PagesFor
  <2> QED
    BY <1>1, <1>2, <2>1, <2>4
<1>4. CASE r > 0
  <2>1. n % BlockSize # 1
    <3>1. CASE r + 1 < BlockSize
      <4>1. \A a \in Nat : (a * BlockSize + (r + 1)) % BlockSize = r + 1
        BY <1>1, <3>1
      <4> QED
        BY <1>1, <1>4, <4>1
    <3>2. CASE r + 1 = BlockSize
      <4>1. n = (q + 1) * BlockSize + 0
        BY <1>1, <3>2
      <4>2. \A a \in Nat : (a * BlockSize + 0) % BlockSize = 0
        BY <1>1
      <4> QED
        BY <1>1, <4>1, <4>2
    <3> QED
      BY <1>1, <3>1, <3>2
  <2>2. n - 1 + BlockSize - 1 = (q + 1) * BlockSize + (r - 1)
    BY <1>1
  <2>3. \A a \in Nat : (a * BlockSize + (r - 1)) \div BlockSize = a
    BY <1>1, <1>4
  <2>4. PagesFor(n - 1) = q + 1
    BY <1>1, <2>2, <2>3 DEF PagesFor
  <2> QED
    BY <1>2, <2>1, <2>4
<1> QED
  BY <1>1, <1>3, <1>4

(***************************************************************************)
(* Steps that move no whole table and give no slot to a token.             *)
(***************************************************************************)
LEMMA FitFrame ==
  ASSUME FitInv,
         \A s \in Request :
           /\ status'[s] = "running" =>
                /\ status[s] = "running"
                /\ Len(block_table'[s]) = Len(block_table[s])
                /\ Slotted(s)' = Slotted(s)
           /\ status'[s] = "swapped" =>
                /\ status[s] = "swapped"
                /\ cpu_block_table'[s] = cpu_block_table[s]
                /\ Slotted(s)' = Slotted(s),
         op' = "may_append" => ~placed'[cur']
  PROVE  FitInv'
BY DEF FitInv, FitsOnGpu, FitsOnCpu, PagesFor

(***************************************************************************)
(* Steps that also leave the tokens and their slots alone.                 *)
(***************************************************************************)
LEMMA FitTokensFrame ==
  ASSUME FitInv,
         UNCHANGED <<token_ids, placed, cpu_block_table>>,
         \A s \in Request :
           /\ status'[s] = "running" =>
                status[s] = "running" /\ Len(block_table'[s]) = Len(block_table[s])
           /\ status'[s] = "swapped" => status[s] = "swapped",
         op' = "may_append" => ~placed[cur']
  PROVE  FitInv'
<1>1. \A s \in Request : Slotted(s)' = Slotted(s)
  BY DEF Slotted, SeqLen
<1> QED
  BY <1>1, FitFrame

LEMMA NewSequenceFit ==
  ASSUME TypeInv, FitInv, NEW s \in Request, NewSequence(s)
  PROVE  FitInv'
<1>1. \A u \in Request : u # s => token_ids'[u] = token_ids[u] /\ status'[u] = status[u]
  BY DEF NewSequence, TypeInv, TypeOK
<1>2. status'[s] = "waiting"
  BY DEF NewSequence, TypeInv, TypeOK
<1>3. /\ UNCHANGED <<placed, block_table, cpu_block_table, op, cur>>
      /\ op = "idle"
  BY DEF NewSequence, callVars, Idle
<1>4. \A u \in Request : u # s => Slotted(u)' = Slotted(u)
  BY <1>1, <1>3 DEF Slotted, SeqLen
<1> QED
  BY <1>1, <1>2, <1>3, <1>4, FitFrame

LEMMA AppendTokenFit ==
  ASSUME TypeInv, FitInv, NEW s \in Request, NEW t \in Token, append_token(s, t)
  PROVE  FitInv'
<1>1. /\ UNCHANGED <<status, block_table, cpu_block_table, op, cur>>
      /\ op = "idle"
      /\ placed[s]
  BY DEF append_token, callVars, Idle
<1>2. \A u \in Request : u # s => token_ids'[u] = token_ids[u] /\ placed'[u] = placed[u]
  BY DEF append_token, TypeInv, TypeOK
<1>3. placed'[s] = FALSE /\ Len(token_ids'[s]) = Len(token_ids[s]) + 1
  BY AppendType DEF append_token, TypeInv, TypeOK
<1>4. Len(token_ids[s]) \in Nat
  BY LenProperties DEF TypeInv, TypeOK
<1>5. \A u \in Request : Slotted(u)' = Slotted(u)
  BY <1>1, <1>2, <1>3, <1>4 DEF Slotted, SeqLen
<1> QED
  BY <1>1, <1>5, FitFrame

LEMMA BeginFit ==
  ASSUME TypeInv, FitInv, NEW s \in Request,
         BeginAllocate(s) \/ BeginFinish(s) \/ Preempt(s) \/ BeginSwapIn(s)
  PROVE  FitInv'
<1>1. /\ UNCHANGED <<token_ids, placed, block_table, cpu_block_table>>
      /\ op' # "may_append"
  BY DEF BeginAllocate, BeginFinish, Preempt, BeginSwapIn, Call, seqVars
<1>2. \A u \in Request : status'[u] \in {"running", "swapped"} => status'[u] = status[u]
  BY DEF BeginAllocate, BeginFinish, Preempt, BeginSwapIn, seqVars, TypeInv, TypeOK
<1> QED
  BY <1>1, <1>2, FitTokensFrame

(***************************************************************************)
(* allocate ends when the table has a page for every token.                *)
(***************************************************************************)
LEMMA AllocateStepFit ==
  ASSUME TypeInv, FitInv, AllocateStep
  PROVE  FitInv'
<1>1. PICK s \in Request : s = cur
  BY BlockManagerAssumption
  DEF TypeInv, TypeOK, AllocateStep, AllocateMiss, AllocateShared, AllocateRevived
<1>2. PICK b \in BlockId : AddToTable(b)
  <2>1. free_block_ids # <<>> => Head(free_block_ids) \in BlockId
    BY EndsType DEF TypeInv, TypeOK
  <2>2. op = "allocate"
    BY DEF AllocateStep, AllocateMiss, AllocateShared, AllocateRevived
  <2>3. free_block_ids # <<>>
    <3>1. num_blocks(s) \in Nat /\ Len(block_table[s]) \in Nat
      BY NumBlocksPositive, LenProperties DEF TypeInv, TypeOK
    <3>2. Len(block_table[s]) < num_blocks(s)
      BY <1>1, <2>2 DEF TypeInv, MethodHasRoom
    <3>3. num_blocks(s) <= Len(block_table[s]) + Len(free_block_ids)
      BY <1>1, <2>2 DEF TypeInv, MethodHasRoom
    <3> QED
      BY <3>1, <3>2, <3>3, EmptySeq
  <2>4. CacheHit => hash_to_block_id[NextHash] \in BlockId
    BY DEF CacheHit, TypeInv, TypeOK
  <2> QED
    BY <2>1, <2>3, <2>4 DEF AllocateStep, AllocateMiss, AllocateShared, AllocateRevived
<1>3. op = "allocate" /\ status[s] = "waiting"
  BY <1>1 DEF TypeInv, MethodHasRoom, AllocateStep, AllocateMiss, AllocateShared, AllocateRevived
<1>4. /\ UNCHANGED <<token_ids, cpu_block_table>>
      /\ op' # "may_append"
      /\ \A u \in Request \ {s} : block_table'[u] = block_table[u]
  BY <1>1, <1>2, <1>3 DEF AddToTable, Return, Call, TypeInv, TypeOK
<1>5. CASE UNCHANGED <<status, placed>>
  BY <1>3, <1>4, <1>5, FitTokensFrame
<1>6. CASE /\ Len(block_table[s]) + 1 = num_blocks(s)
           /\ status' = [status EXCEPT ![s] = "running"]
           /\ placed' = [placed EXCEPT ![s] = TRUE]
  <2>1. Len(block_table'[s]) = num_blocks(s)
    BY <1>1, <1>2, <1>6, AppendType DEF AddToTable, TypeInv, TypeOK
  <2>2. Slotted(s)' = SeqLen(s) /\ status'[s] = "running"
    BY <1>4, <1>6 DEF Slotted, SeqLen, TypeInv, TypeOK
  <2>3. FitsOnGpu(s)' /\ FitsOnCpu(s)'
    BY <2>1, <2>2 DEF FitsOnGpu, FitsOnCpu, PagesFor, num_blocks
  <2>4. ASSUME NEW u \in Request, u # s PROVE FitsOnGpu(u)' /\ FitsOnCpu(u)'
    <3>1. status'[u] = status[u] /\ Slotted(u)' = Slotted(u)
      BY <1>4, <1>6, <2>4 DEF Slotted, SeqLen, TypeInv, TypeOK
    <3> QED
      BY <1>4, <2>4, <3>1 DEF FitInv, FitsOnGpu, FitsOnCpu, PagesFor
  <2> QED
    BY <1>4, <2>3, <2>4 DEF FitInv
<1> QED
  BY <1>1, <1>2, <1>5, <1>6 DEF AddToTable

LEMMA DeallocateStepFit ==
  ASSUME TypeInv, FitInv, DeallocateStep
  PROVE  FitInv'
<1>1. PICK s \in Request : s = cur
  BY BlockManagerAssumption DEF TypeInv, TypeOK, DeallocateStep
<1>2. /\ UNCHANGED <<token_ids, status, placed, cpu_block_table>>
      /\ op' # "may_append"
  BY DEF DeallocateStep, seqVars, callVars, Return, Call
<1>3. status[s] \in {"finished", "waiting"}
  BY <1>1 DEF TypeInv, MethodHasRoom, DeallocateStep
<1>4. \A u \in Request \ {s} : block_table'[u] = block_table[u]
  BY <1>1 DEF DeallocateStep, TypeInv, TypeOK
<1> QED
  BY <1>2, <1>3, <1>4, FitTokensFrame

(***************************************************************************)
(* swap_out leaves a CPU table as long as the GPU table was.               *)
(***************************************************************************)
LEMMA SwapOutStepFit ==
  ASSUME TypeInv, FitInv, SwapOutStep
  PROVE  FitInv'
<1>1. PICK s \in Request : s = cur
  BY BlockManagerAssumption DEF TypeInv, TypeOK, SwapOutStep
<1>2. /\ UNCHANGED <<token_ids, placed>>
      /\ op' # "may_append"
      /\ status[s] = "running"
  BY <1>1 DEF SwapOutStep, callVars, Return, Call, TypeInv, MethodHasRoom
<1>3. \A u \in Request : Slotted(u)' = Slotted(u)
  BY <1>2 DEF Slotted, SeqLen
<1>4. \A u \in Request \ {s} :
         cpu_block_table'[u] = cpu_block_table[u] /\ block_table'[u] = block_table[u]
  BY <1>1 DEF SwapOutStep, TypeInv, TypeOK
<1>5. CASE UNCHANGED <<block_table, status>>
  BY <1>2, <1>3, <1>4, <1>5, FitFrame
<1>6. CASE /\ Len(cpu_block_table[s]) + 1 = Len(block_table[s])
           /\ status' = [status EXCEPT ![s] = "swapped"]
  <2>1. /\ cpu_block_table[s] \in Seq(CpuBlockId)
        /\ Head(cpu_free_block_ids) \in CpuBlockId
    <3>1. /\ cpu_free_block_ids \in Seq(CpuBlockId)
          /\ cpu_block_table[s] \in Seq(CpuBlockId)
          /\ block_table[s] \in Seq(BlockId)
      BY DEF TypeInv, TypeOK
    <3>2. Len(block_table[s]) <= Len(cpu_block_table[s]) + Len(cpu_free_block_ids)
      BY <1>1 DEF TypeInv, MethodHasRoom, SwapOutStep
    <3>3. Len(cpu_block_table[s]) \in Nat
      BY <3>1, LenProperties
    <3>4. cpu_free_block_ids # <<>>
      BY <1>6, <3>2, <3>3, EmptySeq
    <3> QED
      BY <3>1, <3>4, EndsType
  <2>2. cpu_block_table'[s] = Append(cpu_block_table[s], Head(cpu_free_block_ids))
    BY <1>1 DEF SwapOutStep, TypeInv, TypeOK
  <2>3. Len(cpu_block_table'[s]) = Len(block_table[s])
    BY <1>6, <2>1, <2>2, AppendType
  <2>4. status'[s] = "swapped" /\ \A u \in Request \ {s} : status'[u] = status[u]
    BY <1>6 DEF TypeInv, TypeOK
  <2>5. FitsOnGpu(s)' /\ FitsOnCpu(s)'
    BY <1>2, <1>3, <2>3, <2>4 DEF FitInv, FitsOnGpu, FitsOnCpu, PagesFor
  <2>6. \A u \in Request \ {s} : FitsOnGpu(u)' /\ FitsOnCpu(u)'
    BY <1>3, <1>4, <2>4 DEF FitInv, FitsOnGpu, FitsOnCpu, PagesFor
  <2> QED
    BY <1>2, <2>5, <2>6 DEF FitInv
<1> QED
  BY <1>1, <1>5, <1>6 DEF SwapOutStep

(***************************************************************************)
(* swap_in leaves a GPU table as long as the CPU table was.                *)
(***************************************************************************)
LEMMA SwapInStepFit ==
  ASSUME TypeInv, FitInv, SwapInStep
  PROVE  FitInv'
<1>1. PICK s \in Request : s = cur
  BY BlockManagerAssumption DEF TypeInv, TypeOK, SwapInStep
<1>2. /\ UNCHANGED <<token_ids, placed>>
      /\ op' # "may_append"
      /\ status[s] = "swapped"
  BY <1>1 DEF SwapInStep, callVars, Return, Call, TypeInv, MethodHasRoom
<1>3. \A u \in Request : Slotted(u)' = Slotted(u)
  BY <1>2 DEF Slotted, SeqLen
<1>4. \A u \in Request \ {s} : block_table'[u] = block_table[u]
  BY <1>1 DEF SwapInStep, TypeInv, TypeOK
<1>5. CASE UNCHANGED <<cpu_block_table, status>>
  BY <1>2, <1>3, <1>4, <1>5, FitFrame
<1>6. CASE /\ Len(block_table[s]) + 1 = Len(cpu_block_table[s])
           /\ cpu_block_table' = [cpu_block_table EXCEPT ![s] = <<>>]
           /\ status' = [status EXCEPT ![s] = "running"]
  <2>1. /\ block_table[s] \in Seq(BlockId)
        /\ Head(free_block_ids) \in BlockId
    <3>1. /\ free_block_ids \in Seq(BlockId)
          /\ block_table[s] \in Seq(BlockId)
      BY DEF TypeInv, TypeOK
    <3>2. Len(cpu_block_table[s]) <= Len(block_table[s]) + Len(free_block_ids)
      BY <1>1 DEF TypeInv, MethodHasRoom, SwapInStep
    <3>3. Len(block_table[s]) \in Nat
      BY <3>1, LenProperties
    <3>4. free_block_ids # <<>>
      BY <1>6, <3>2, <3>3, EmptySeq
    <3> QED
      BY <3>1, <3>4, EndsType
  <2>2. block_table'[s] = Append(block_table[s], Head(free_block_ids))
    BY <1>1 DEF SwapInStep, TypeInv, TypeOK
  <2>3. Len(block_table'[s]) = Len(cpu_block_table[s])
    BY <1>6, <2>1, <2>2, AppendType
  <2>4. status'[s] = "running" /\ \A u \in Request \ {s} : status'[u] = status[u]
    BY <1>6 DEF TypeInv, TypeOK
  <2>5. \A u \in Request \ {s} : cpu_block_table'[u] = cpu_block_table[u]
    BY <1>6 DEF TypeInv, TypeOK
  <2>6. FitsOnGpu(s)' /\ FitsOnCpu(s)'
    BY <1>2, <1>3, <2>3, <2>4 DEF FitInv, FitsOnGpu, FitsOnCpu, PagesFor
  <2>7. \A u \in Request \ {s} : FitsOnGpu(u)' /\ FitsOnCpu(u)'
    BY <1>3, <1>4, <2>4, <2>5 DEF FitInv, FitsOnGpu, FitsOnCpu, PagesFor
  <2> QED
    BY <1>2, <2>6, <2>7 DEF FitInv
<1> QED
  BY <1>1, <1>5, <1>6 DEF SwapInStep

(***************************************************************************)
(* copy_on_write replaces a page of the table; may_append follows before   *)
(* the token has a slot.                                                   *)
(***************************************************************************)
LEMMA CopyOnWriteFit ==
  ASSUME TypeInv, FitInv, NEW s \in Request, CopyOnWrite(s)
  PROVE  FitInv'
<1>1. /\ UNCHANGED <<token_ids, status, placed, cpu_block_table>>
      /\ op = "idle"
      /\ ~placed[s]
  BY DEF CopyOnWrite, seqVars, Idle
<1>2. op' = "may_append" => cur' = s
  BY <1>1 DEF CopyOnWrite, Call, callVars
<1>3. \A u \in Request : Len(block_table'[u]) = Len(block_table[u])
  <2>1. CASE UNCHANGED block_table
    BY <2>1
  <2>2. CASE block_table' =
               [block_table EXCEPT ![s][Len(block_table[s])] = Head(free_block_ids)]
    <3>1. \A u \in Request \ {s} : block_table'[u] = block_table[u]
      BY <2>2 DEF TypeInv, TypeOK
    <3>2. PICK n, new : n = Len(block_table[s]) /\ new = Head(free_block_ids)
      OBVIOUS
    <3>3. block_table'[s] = [block_table[s] EXCEPT ![n] = new]
      BY <2>2, <3>2 DEF TypeInv, TypeOK
    <3>4. DOMAIN block_table'[s] = DOMAIN block_table[s]
      BY <3>3
    <3>5. block_table[s] \in Seq(BlockId) /\ block_table'[s] \in Seq(BlockId)
      <4>1. TypeInv'
        BY CopyOnWriteType
      <4> QED
        BY <4>1 DEF TypeInv, TypeOK
    <3>6. Len(block_table'[s]) = Len(block_table[s])
      BY <3>4, <3>5, LenProperties
    <3> QED
      BY <3>1, <3>6
  <2> QED
    BY <2>1, <2>2 DEF CopyOnWrite
<1> QED
  BY <1>1, <1>2, <1>3, FitTokensFrame

(***************************************************************************)
(* may_append adds a page exactly when the token begins a block.           *)
(***************************************************************************)
LEMMA AppendStepFit ==
  ASSUME TypeInv, FitInv, AppendStep
  PROVE  FitInv'
<1>1. PICK s \in Request : s = cur
  BY BlockManagerAssumption
  DEF TypeInv, TypeOK, AppendStep, AppendNewBlock, AppendFillsBlock, AppendInside,
      AppendRaises, Appending
<1>2. op = "may_append" /\ ~placed[s] /\ status[s] = "running"
  BY <1>1 DEF TypeInv, MethodHasRoom, FitInv, AppendStep, AppendNewBlock, AppendFillsBlock,
              AppendInside, AppendRaises, Appending
<1>3. CASE AppendRaises
  <2>1. UNCHANGED <<token_ids, status, placed, block_table, cpu_block_table, op, cur>>
    BY <1>3 DEF AppendRaises, Raise, seqVars, callVars
  <2> QED
    BY <1>1, <1>2, <2>1, FitTokensFrame
<1>4. CASE AppendNewBlock \/ AppendFillsBlock \/ AppendInside
  <2>1. AppendDone
    BY <1>4 DEF AppendNewBlock, AppendFillsBlock, AppendInside
  <2>2. /\ UNCHANGED <<token_ids, status, cpu_block_table>>
        /\ placed' = [placed EXCEPT ![s] = TRUE]
        /\ op' = "idle"
    BY <1>1, <2>1 DEF AppendDone, Return, Call
  <2>3. SeqLen(s) \in Nat \ {0}
    <3>1. token_ids[s] # <<>> /\ token_ids[s] \in Seq(Token)
      BY <1>2 DEF TypeInv, TypeOK, TablesFollowStatus
    <3> QED
      BY <3>1, EndsType DEF SeqLen
  <2>4. Slotted(s) = SeqLen(s) - 1 /\ Slotted(s)' = SeqLen(s)
    BY <1>2, <2>2 DEF Slotted, SeqLen, TypeInv, TypeOK
  <2>5. Len(block_table[s]) = PagesFor(SeqLen(s) - 1)
    BY <1>2, <2>4 DEF FitInv, FitsOnGpu
  <2>6. Len(block_table'[s]) = PagesFor(SeqLen(s))
    <3>1. CASE AppendNewBlock
      <4>1. block_table'[s] = Append(block_table[s], Head(free_block_ids))
        BY <1>1, <3>1 DEF AppendNewBlock, TypeInv, TypeOK
      <4>2. Head(free_block_ids) \in BlockId /\ block_table[s] \in Seq(BlockId)
        BY <3>1, EndsType DEF AppendNewBlock, TypeInv, TypeOK
      <4>3. SeqLen(s) % BlockSize = 1
        BY <1>1, <3>1 DEF AppendNewBlock, Remainder
      <4> QED
        BY <2>3, <2>5, <4>1, <4>2, <4>3, NextPage, AppendType
    <3>2. CASE AppendFillsBlock \/ AppendInside
      <4>1. SeqLen(s) % BlockSize # 1 /\ block_table' = block_table
        BY <1>1, <3>2 DEF AppendFillsBlock, AppendInside, Remainder
      <4> QED
        BY <2>3, <2>5, <4>1, NextPage
    <3> QED
      BY <1>4, <3>1, <3>2
  <2>7. FitsOnGpu(s)' /\ FitsOnCpu(s)'
    BY <1>2, <2>2, <2>4, <2>6 DEF FitsOnGpu, FitsOnCpu, PagesFor
  <2>8. ASSUME NEW u \in Request, u # s PROVE FitsOnGpu(u)' /\ FitsOnCpu(u)'
    <3>1. Slotted(u)' = Slotted(u)
      BY <2>2, <2>8 DEF Slotted, SeqLen, TypeInv, TypeOK
    <3>2. block_table'[u] = block_table[u]
      BY <1>1, <1>4, <2>8 DEF AppendNewBlock, AppendFillsBlock, AppendInside, TypeInv, TypeOK
    <3> QED
      BY <2>2, <3>1, <3>2 DEF FitInv, FitsOnGpu, FitsOnCpu, PagesFor
  <2> QED
    BY <2>2, <2>7, <2>8 DEF FitInv
<1> QED
  BY <1>3, <1>4 DEF AppendStep

(***************************************************************************)
(* TablesFitTokens inside the methods as well: a page table has the pages  *)
(* of the slots of the side its status names even while a swap moves it,   *)
(* and a sequence in may_append has a token without a slot.                *)
(***************************************************************************)
THEOREM FitInvariant == Spec => [](TypeInv /\ FitInv)
<1>1. Init => FitInv
  BY DEF Init, FitInv, FitsOnGpu, FitsOnCpu
<1>2. TypeInv /\ FitInv /\ [Next]_vars => FitInv'
  <2> SUFFICES ASSUME TypeInv, FitInv, [Next]_vars
               PROVE  FitInv'
    OBVIOUS
  <2>1. ASSUME NEW s \in Request, NewSequence(s) PROVE FitInv'
    BY <2>1, NewSequenceFit
  <2>2. ASSUME NEW s \in Request, NEW t \in Token, append_token(s, t) PROVE FitInv'
    BY <2>2, AppendTokenFit
  <2>3. ASSUME NEW s \in Request, NEW n \in ChunkEnds, RecordComputed(s, n) PROVE FitInv'
    <3>1. UNCHANGED <<token_ids, status, placed, block_table, cpu_block_table, op, cur>>
      BY <2>3 DEF RecordComputed, seqVars, callVars
    <3> QED
      BY <3>1, FitTokensFrame DEF FitInv
  <2>4. ASSUME NEW s \in Request,
               BeginAllocate(s) \/ BeginFinish(s) \/ Preempt(s) \/ BeginSwapIn(s)
        PROVE  FitInv'
    BY <2>4, BeginFit
  <2>5. ASSUME NEW s \in Request, CopyOnWrite(s) PROVE FitInv'
    BY <2>5, CopyOnWriteFit
  <2>6. CASE AllocateStep \/ DeallocateStep
    BY <2>6, AllocateStepFit, DeallocateStepFit
  <2>7. CASE SwapOutStep \/ SwapInStep
    BY <2>7, SwapOutStepFit, SwapInStepFit
  <2>8. CASE AppendStep
    BY <2>8, AppendStepFit
  <2>9. CASE UNCHANGED vars
    <3>1. UNCHANGED <<token_ids, status, placed, block_table, cpu_block_table, op, cur>>
      BY <2>9 DEF vars, seqVars, callVars
    <3> QED
      BY <3>1, FitTokensFrame DEF FitInv
  <2> QED
    BY <2>1, <2>2, <2>3, <2>4, <2>5, <2>6, <2>7, <2>8, <2>9 DEF Next, Stopped
<1> QED
  BY <1>1, <1>2, TypeInvariant, PTL DEF Spec

(***************************************************************************)
(* Between methods the page table of a sequence has a page for every token *)
(* that has a slot, on the side its status names, and none on the other.   *)
(***************************************************************************)
THEOREM TablesFit == Spec => []TablesFitTokens
<1>1. TypeInv /\ FitInv => TablesFitTokens
  <2> SUFFICES ASSUME TypeInv, FitInv, op = "idle", NEW s \in Request
               PROVE  /\ Len(block_table[s]) =
                           IF status[s] = "running" THEN PagesFor(Slotted(s)) ELSE 0
                      /\ Len(cpu_block_table[s]) =
                           IF status[s] = "swapped" THEN PagesFor(Slotted(s)) ELSE 0
    BY DEF TablesFitTokens, PagesFor, Slotted
  <2>1. cur # s
    BY BlockManagerAssumption DEF TypeInv, TypeOK
  <2>2. status[s] \in {"absent", "waiting", "running", "swapped", "finished"}
    BY DEF TypeInv, TypeOK
  <2>3. /\ status[s] # "running" => block_table[s] = <<>>
        /\ status[s] # "swapped" => cpu_block_table[s] = <<>>
    BY <2>1, <2>2 DEF TypeInv, TablesFollowStatus
  <2> QED
    BY <2>3, EmptySeq DEF FitInv, FitsOnGpu, FitsOnCpu
<1> QED
  BY <1>1, FitInvariant, PTL

-----------------------------------------------------------------------------
(* The CPU pool.                                                           *)

(***************************************************************************)
(* CpuPoolPartition without counting: no two held entries of CPU tables    *)
(* name the same block, and the queue holds the blocks that none names.    *)
(***************************************************************************)
CpuOwnersUnique ==
  \A u, v \in Request :
    \A i \in HeldCpu(u), j \in HeldCpu(v) :
      cpu_block_table[u][i] = cpu_block_table[v][j] => u = v /\ i = j

CpuOwned(b) == \E u \in Request : \E i \in HeldCpu(u) : cpu_block_table[u][i] = b

CpuInv ==
  /\ IsInjective(cpu_free_block_ids)
  /\ CpuOwnersUnique
  /\ \A b \in CpuBlockId : b \in Range(cpu_free_block_ids) <=> ~CpuOwned(b)

(***************************************************************************)
(* Outside swap_in, every entry of a CPU table is held.                    *)
(***************************************************************************)
LEMMA HeldCpuOutsideSwapIn ==
  /\ op # "swap_in" => \A s \in Request : HeldCpu(s) = DOMAIN cpu_block_table[s]
  /\ op' # "swap_in" => \A s \in Request : HeldCpu(s)' = DOMAIN cpu_block_table'[s]
BY DEF HeldCpu

(***************************************************************************)
(* Steps that leave the CPU tables and the CPU queue alone.                *)
(***************************************************************************)
LEMMA CpuFrame ==
  ASSUME CpuInv, UNCHANGED <<cpu_block_table, cpu_free_block_ids>>,
         \A s \in Request : HeldCpu(s)' = HeldCpu(s)
  PROVE  CpuInv'
BY DEF CpuInv, CpuOwnersUnique, CpuOwned

LEMMA CpuQuietCall ==
  ASSUME CpuInv, UNCHANGED <<cpu_block_table, cpu_free_block_ids>>,
         op # "swap_in", op' # "swap_in"
  PROVE  CpuInv'
<1>1. \A s \in Request : HeldCpu(s)' = HeldCpu(s)
  BY HeldCpuOutsideSwapIn
<1> QED
  BY <1>1, CpuFrame

LEMMA InitCpu ==
  ASSUME Init
  PROVE  CpuInv
<1>1. cpu_free_block_ids = [i \in 1 .. NumCpuBlocks |-> i - 1] /\ NumCpuBlocks \in Nat
  BY BlockManagerAssumption DEF Init
<1>2. IsInjective(cpu_free_block_ids)
  BY <1>1 DEF IsInjective
<1>3. \A s \in Request : HeldCpu(s) = {}
  BY DEF Init, HeldCpu
<1>4. ASSUME NEW b \in CpuBlockId PROVE b \in Range(cpu_free_block_ids)
  <2>1. b \in Int /\ b + 1 \in 1 .. NumCpuBlocks /\ b + 1 - 1 = b
    BY <1>1 DEF CpuBlockId
  <2>2. cpu_free_block_ids[b + 1] = b /\ b + 1 \in DOMAIN cpu_free_block_ids
    BY <1>1, <2>1
  <2> QED
    BY <2>2 DEF Range
<1> QED
  BY <1>2, <1>3, <1>4 DEF CpuInv, CpuOwnersUnique, CpuOwned

LEMMA BeginSwapInCpu ==
  ASSUME TypeInv, CpuInv, NEW s \in Request, BeginSwapIn(s)
  PROVE  CpuInv'
<1>1. /\ UNCHANGED <<block_table, cpu_block_table, cpu_free_block_ids>>
      /\ op = "idle"
      /\ cur # s
      /\ op' = "swap_in" /\ cur' = s
      /\ status[s] = "swapped"
  BY BlockManagerAssumption DEF BeginSwapIn, Idle, Call, TypeInv, TypeOK
<1>2. block_table[s] = <<>> /\ cpu_block_table[s] \in Seq(CpuBlockId)
  BY <1>1 DEF TypeInv, TypeOK, TablesFollowStatus
<1>3. \A i \in DOMAIN cpu_block_table[s] : i > Len(block_table[s])
  BY <1>2, LenProperties, EmptySeq
<1>4. \A u \in Request : HeldCpu(u)' = HeldCpu(u)
  BY <1>1, <1>3 DEF HeldCpu
<1> QED
  BY <1>1, <1>4, CpuFrame

(***************************************************************************)
(* swap_out pops a CPU block and appends it to the table being built.      *)
(***************************************************************************)
LEMMA SwapOutStepCpu ==
  ASSUME TypeInv, CpuInv, SwapOutStep
  PROVE  CpuInv'
<1>1. PICK s \in Request : s = cur
  BY BlockManagerAssumption DEF TypeInv, TypeOK, SwapOutStep
<1>2. PICK n : n = Len(cpu_block_table[s])
  OBVIOUS
<1>3. PICK b : b = Head(cpu_free_block_ids)
  OBVIOUS
<1>4. /\ op = "swap_out" /\ op' # "swap_in"
      /\ cpu_free_block_ids' = Tail(cpu_free_block_ids)
      /\ cpu_block_table' = [cpu_block_table EXCEPT ![s] = Append(cpu_block_table[s], b)]
  BY <1>1, <1>3 DEF SwapOutStep, TakeCpuBlock, callVars, Return, Call
<1>5. /\ cpu_block_table[s] \in Seq(CpuBlockId)
      /\ cpu_free_block_ids \in Seq(CpuBlockId)
      /\ block_table[s] \in Seq(BlockId)
      /\ n \in Nat
      /\ DOMAIN cpu_block_table[s] = 1 .. n
  BY <1>2, LenProperties DEF TypeInv, TypeOK
<1>6. cpu_free_block_ids # <<>>
  <2>1. n < Len(block_table[s]) /\ Len(block_table[s]) <= n + Len(cpu_free_block_ids)
    BY <1>1, <1>2, <1>4 DEF TypeInv, MethodHasRoom
  <2>2. Len(block_table[s]) \in Nat
    BY <1>5, LenProperties
  <2> QED
    BY <1>5, <2>1, <2>2, EmptySeq
<1>7. /\ b \in CpuBlockId
      /\ b \in Range(cpu_free_block_ids)
      /\ IsInjective(cpu_free_block_ids')
      /\ Range(cpu_free_block_ids') = Range(cpu_free_block_ids) \ {b}
  BY <1>3, <1>4, <1>5, <1>6, EndsType, TailRange DEF CpuInv
<1>8. /\ DOMAIN cpu_block_table'[s] = 1 .. n + 1
      /\ \A i \in 1 .. n : cpu_block_table'[s][i] = cpu_block_table[s][i]
      /\ cpu_block_table'[s][n + 1] = b
  <2>1. cpu_block_table'[s] = Append(cpu_block_table[s], b)
    BY <1>4 DEF TypeInv, TypeOK
  <2> QED
    BY <1>2, <1>5, <1>7, <2>1, AppendProperties, LenProperties
<1>9. \A u \in Request \ {s} : cpu_block_table'[u] = cpu_block_table[u]
  BY <1>4 DEF TypeInv, TypeOK
<1>10. \A u \in Request : /\ HeldCpu(u) = DOMAIN cpu_block_table[u]
                          /\ HeldCpu(u)' = DOMAIN cpu_block_table'[u]
  BY <1>4, HeldCpuOutsideSwapIn
<1>11. ~CpuOwned(b)
  BY <1>7 DEF CpuInv
\* The entries after the step: those before it, and the new one.
<1>12. ASSUME NEW u \in Request, NEW i \in HeldCpu(u)'
       PROVE  \/ u = s /\ i = n + 1 /\ cpu_block_table'[u][i] = b
              \/ /\ i \in HeldCpu(u)
                 /\ cpu_block_table'[u][i] = cpu_block_table[u][i]
                 /\ cpu_block_table[u][i] # b
  <2>1. CASE u = s /\ i = n + 1
    BY <1>8, <2>1
  <2>2. CASE ~ (u = s /\ i = n + 1)
    <3>1. i \in HeldCpu(u) /\ cpu_block_table'[u][i] = cpu_block_table[u][i]
      BY <1>5, <1>8, <1>9, <1>10, <1>12, <2>2
    <3> QED
      BY <1>11, <3>1 DEF CpuOwned
  <2> QED
    BY <2>1, <2>2
<1>13. ASSUME NEW u \in Request, NEW i \in HeldCpu(u)
       PROVE  i \in HeldCpu(u)' /\ cpu_block_table'[u][i] = cpu_block_table[u][i]
  BY <1>5, <1>8, <1>9, <1>10, <1>13
<1>14. n + 1 \in HeldCpu(s)'
  BY <1>5, <1>8, <1>10
<1>15. CpuOwnersUnique'
  <2> SUFFICES ASSUME NEW u \in Request, NEW v \in Request,
                      NEW i \in HeldCpu(u)', NEW j \in HeldCpu(v)',
                      cpu_block_table'[u][i] = cpu_block_table'[v][j]
               PROVE  u = v /\ i = j
    BY DEF CpuOwnersUnique
  <2> QED
    BY <1>12 DEF CpuInv, CpuOwnersUnique
<1>16. ASSUME NEW c \in CpuBlockId PROVE c \in Range(cpu_free_block_ids') <=> ~CpuOwned(c)'
  <2>1. CpuOwned(c)' <=> c = b \/ CpuOwned(c)
    BY <1>8, <1>12, <1>13, <1>14 DEF CpuOwned
  <2> QED
    BY <1>7, <2>1 DEF CpuInv
<1> QED
  BY <1>7, <1>15, <1>16 DEF CpuInv

(***************************************************************************)
(* swap_in gives the CPU blocks back from the first to the last.           *)
(***************************************************************************)
LEMMA SwapInStepCpu ==
  ASSUME TypeInv, CpuInv, SwapInStep
  PROVE  CpuInv'
<1>1. PICK s \in Request : s = cur
  BY BlockManagerAssumption DEF TypeInv, TypeOK, SwapInStep
<1>2. PICK n : n = Len(block_table[s])
  OBVIOUS
<1>3. PICK m : m = Len(cpu_block_table[s])
  OBVIOUS
<1>4. PICK b : b = cpu_block_table[s][n + 1]
  OBVIOUS
<1>5. /\ op = "swap_in"
      /\ cpu_free_block_ids' = Append(cpu_free_block_ids, b)
      /\ block_table' = [block_table EXCEPT ![s] = Append(block_table[s], Head(free_block_ids))]
  BY <1>1, <1>2, <1>4 DEF SwapInStep
<1>6. /\ block_table[s] \in Seq(BlockId)
      /\ cpu_block_table[s] \in Seq(CpuBlockId)
      /\ cpu_free_block_ids \in Seq(CpuBlockId)
      /\ n \in Nat /\ m \in Nat /\ n < m
      /\ DOMAIN cpu_block_table[s] = 1 .. m
  BY <1>1, <1>2, <1>3, <1>5, LenProperties DEF TypeInv, TypeOK, MethodHasRoom
<1>7. HeldCpu(s) = n + 1 .. m /\ b \in CpuBlockId
  <2>1. HeldCpu(s) = n + 1 .. m
    BY <1>1, <1>2, <1>5, <1>6 DEF HeldCpu
  <2> QED
    BY <1>3, <1>4, <1>6, <2>1, ElementOfSeq
<1>8. Len(block_table'[s]) = n + 1
  <2>1. m <= n + Len(free_block_ids) /\ free_block_ids \in Seq(BlockId)
    BY <1>1, <1>2, <1>3, <1>5 DEF TypeInv, TypeOK, MethodHasRoom
  <2>2. free_block_ids # <<>>
    BY <1>6, <2>1, EmptySeq
  <2>3. block_table'[s] = Append(block_table[s], Head(free_block_ids))
    BY <1>5 DEF TypeInv, TypeOK
  <2> QED
    BY <1>2, <1>6, <2>1, <2>2, <2>3, EndsType, AppendType
<1>9. \/ /\ n + 1 < m
         /\ UNCHANGED <<cpu_block_table, op, cur>>
      \/ /\ n + 1 = m
         /\ cpu_block_table' = [cpu_block_table EXCEPT ![s] = <<>>]
         /\ op' = "idle"
  BY <1>1, <1>2, <1>3 DEF SwapInStep, Return, Call
<1>10. HeldCpu(s)' = n + 2 .. m
  <2>1. CASE n + 1 < m /\ UNCHANGED <<cpu_block_table, op, cur>>
    <3>1. HeldCpu(s)' = {i \in 1 .. m : i > n + 1}
      BY <1>1, <1>5, <1>6, <1>8, <2>1 DEF HeldCpu
    <3> QED
      BY <1>6, <3>1
  <2>2. CASE n + 1 = m /\ cpu_block_table' = [cpu_block_table EXCEPT ![s] = <<>>]
    <3>1. cpu_block_table'[s] = <<>>
      BY <2>2 DEF TypeInv, TypeOK
    <3>2. HeldCpu(s)' = {}
      BY <3>1 DEF HeldCpu
    <3>3. n + 2 .. m = {}
      BY <1>6, <2>2
    <3> QED
      BY <3>2, <3>3
  <2> QED
    BY <1>9, <2>1, <2>2
<1>11. \A i \in n + 2 .. m : cpu_block_table'[s][i] = cpu_block_table[s][i]
  <2>1. CASE n + 1 < m /\ UNCHANGED <<cpu_block_table, op, cur>>
    BY <2>1
  <2>2. CASE n + 1 = m
    BY <1>6, <2>2
  <2> QED
    BY <1>9, <2>1, <2>2
<1>12. \A u \in Request \ {s} : /\ HeldCpu(u)' = HeldCpu(u)
                               /\ cpu_block_table'[u] = cpu_block_table[u]
  BY <1>1, <1>5, <1>9 DEF HeldCpu, TypeInv, TypeOK
\* The entries after the step: those before it without the one given back.
<1>13. ASSUME NEW u \in Request, NEW i
       PROVE  /\ i \in HeldCpu(u)' <=> i \in HeldCpu(u) /\ ~ (u = s /\ i = n + 1)
              /\ i \in HeldCpu(u)' => cpu_block_table'[u][i] = cpu_block_table[u][i]
  <2>1. CASE u = s
    <3>1. i \in n + 2 .. m <=> i \in n + 1 .. m /\ i # n + 1
      BY <1>6
    <3> QED
      BY <1>7, <1>10, <1>11, <2>1, <3>1
  <2>2. CASE u # s
    BY <1>12, <2>2
  <2> QED
    BY <2>1, <2>2
<1>14. n + 1 \in HeldCpu(s)
  BY <1>6, <1>7
<1>15. CpuOwned(b)
  BY <1>4, <1>14 DEF CpuOwned
<1>16. /\ IsInjective(cpu_free_block_ids')
       /\ Range(cpu_free_block_ids') = Range(cpu_free_block_ids) \cup {b}
  BY <1>5, <1>6, <1>7, <1>15, AppendRange DEF CpuInv
<1>17. CpuOwnersUnique'
  BY <1>13 DEF CpuInv, CpuOwnersUnique
<1>18. ASSUME NEW c \in CpuBlockId PROVE c \in Range(cpu_free_block_ids') <=> ~CpuOwned(c)'
  <2>1. CpuOwned(c)' <=> c # b /\ CpuOwned(c)
    <3>1. ~CpuOwned(b)'
      <4> SUFFICES ASSUME NEW u \in Request, NEW i \in HeldCpu(u)',
                          cpu_block_table'[u][i] = b
                   PROVE  FALSE
        BY DEF CpuOwned
      <4>1. i \in HeldCpu(u) /\ cpu_block_table[u][i] = cpu_block_table[s][n + 1]
        BY <1>4, <1>13
      <4> QED
        BY <1>13, <1>14, <4>1 DEF CpuInv, CpuOwnersUnique
    <3>2. CpuOwned(c)' => CpuOwned(c)
      BY <1>13 DEF CpuOwned
    <3>3. c # b /\ CpuOwned(c) => CpuOwned(c)'
      BY <1>4, <1>13 DEF CpuOwned
    <3> QED
      BY <3>1, <3>2, <3>3
  <2> QED
    BY <1>15, <1>16, <2>1 DEF CpuInv
<1> QED
  BY <1>16, <1>17, <1>18 DEF CpuInv

(***************************************************************************)
(* CpuPoolPartition with its owners: no CPU block is free twice, or owned  *)
(* by two entries, or free and owned; an entry that swap_in has moved owns *)
(* its block no more.                                                      *)
(***************************************************************************)
THEOREM CpuInvariant == Spec => [](TypeInv /\ CpuInv)
<1>1. Init => CpuInv
  BY InitCpu
<1>2. TypeInv /\ CpuInv /\ [Next]_vars => CpuInv'
  <2> SUFFICES ASSUME TypeInv, CpuInv, [Next]_vars
               PROVE  CpuInv'
    OBVIOUS
  <2>1. ASSUME NEW s \in Request,
               \/ NewSequence(s)
               \/ \E t \in Token : append_token(s, t)
               \/ \E n \in ChunkEnds : RecordComputed(s, n)
               \/ BeginAllocate(s) \/ BeginFinish(s) \/ Preempt(s) \/ CopyOnWrite(s)
        PROVE  CpuInv'
    <3>1. /\ op = "idle"
          /\ UNCHANGED <<cpu_block_table, cpu_free_block_ids>>
          /\ op' # "swap_in"
      BY <2>1 DEF NewSequence, append_token, RecordComputed, BeginAllocate,
                  BeginFinish, Preempt, CopyOnWrite, Idle, Call, callVars
    <3> QED
      BY <3>1, CpuQuietCall
  <2>2. ASSUME NEW s \in Request, BeginSwapIn(s) PROVE CpuInv'
    BY <2>2, BeginSwapInCpu
  <2>3. CASE AllocateStep \/ DeallocateStep \/ AppendStep
    <3>1. UNCHANGED <<cpu_block_table, cpu_free_block_ids>>
      BY <2>3 DEF AllocateStep, AllocateMiss, AllocateShared, AllocateRevived, AddToTable,
                  DeallocateStep, AppendStep, AppendNewBlock, AppendFillsBlock,
                  AppendInside, AppendRaises, AppendDone, Raise
    <3>2. op # "swap_in" /\ op' \in {op, "idle"}
      BY <2>3 DEF AllocateStep, AllocateMiss, AllocateShared, AllocateRevived, AddToTable,
                  DeallocateStep, AppendStep, AppendNewBlock, AppendFillsBlock,
                  AppendInside, AppendRaises, Appending, AppendDone, Raise, Return, Call,
                  callVars
    <3> QED
      BY <3>1, <3>2, CpuQuietCall
  <2>4. CASE SwapOutStep
    BY <2>4, SwapOutStepCpu
  <2>5. CASE SwapInStep
    BY <2>5, SwapInStepCpu
  <2>6. CASE UNCHANGED vars
    <3>1. \A s \in Request : HeldCpu(s)' = HeldCpu(s)
      BY <2>6 DEF HeldCpu, vars, callVars
    <3> QED
      BY <2>6, <3>1, CpuFrame DEF vars
  <2> QED
    BY <2>1, <2>2, <2>3, <2>4, <2>5, <2>6 DEF Next, Stopped
<1> QED
  BY <1>1, <1>2, TypeInvariant, PTL DEF Spec

(***************************************************************************)
(* A CPU block is free or belongs to one entry of one page table, through  *)
(* any number of swaps.                                                    *)
(***************************************************************************)
THEOREM CpuPoolPartitioned == Spec => []CpuPoolPartition
<1>1. CpuInv => CpuPoolPartition
  <2> SUFFICES ASSUME CpuInv, NEW b \in CpuBlockId
               PROVE  Cardinality(CpuReferences(b)) =
                        IF b \in Range(cpu_free_block_ids) THEN 0 ELSE 1
    BY DEF CpuInv, CpuPoolPartition
  <2>1. \A u \in Request : \A i : <<u, i>> \in CpuReferences(b) <=>
                                i \in HeldCpu(u) /\ cpu_block_table[u][i] = b
    BY DEF CpuReferences
  <2>2. \A x \in CpuReferences(b) : \E u \in Request : \E i : x = <<u, i>>
    BY DEF CpuReferences
  <2>3. CASE b \in Range(cpu_free_block_ids)
    <3>1. CpuReferences(b) = {}
      BY <2>1, <2>2, <2>3 DEF CpuInv, CpuOwned
    <3> QED
      BY <2>3, <3>1, FS_EmptySet
  <2>4. CASE b \notin Range(cpu_free_block_ids)
    <3>1. PICK u \in Request : \E i \in HeldCpu(u) : cpu_block_table[u][i] = b
      BY <2>4 DEF CpuInv, CpuOwned
    <3>2. PICK i \in HeldCpu(u) : cpu_block_table[u][i] = b
      BY <3>1
    <3>3. ASSUME NEW v \in Request, NEW j, <<v, j>> \in CpuReferences(b)
          PROVE  v = u /\ j = i
      BY <2>1, <3>2, <3>3 DEF CpuInv, CpuOwnersUnique
    <3>4. CpuReferences(b) = {<<u, i>>}
      BY <2>1, <2>2, <3>2, <3>3
    <3> QED
      BY <2>4, <3>4, FS_Singleton
  <2> QED
    BY <2>3, <2>4
<1> QED
  BY <1>1, CpuInvariant, PTL

-----------------------------------------------------------------------------
(* The block manager implements PagePool.                                  *)

\* The entries of the page table of u that name block b.
Entries(b, u) == {i \in Held(u) : block_table[u][i] = b}

Uses == [b \in BlockId |-> [u \in Request |-> Cardinality(Entries(b, u))]]

FreePages == Range(free_block_ids)

(***************************************************************************)
(* Entries are the references of one sequence, so there are finitely many. *)
(***************************************************************************)
LEMMA EntriesFinite ==
  ASSUME TypeOK, NEW b \in BlockId, NEW u \in Request
  PROVE  /\ IsFiniteSet(Entries(b, u))
         /\ \A i : i \in Entries(b, u) <=> <<u, i>> \in References(b)
<1>1. block_table[u] \in Seq(BlockId)
  BY DEF TypeOK
<1>2. DOMAIN block_table[u] = 1 .. Len(block_table[u]) /\ Len(block_table[u]) \in Nat
  BY <1>1, LenProperties
<1>3. IsFiniteSet(DOMAIN block_table[u])
  BY <1>2, FS_Interval
<1>4. Entries(b, u) \subseteq DOMAIN block_table[u]
  BY DEF Entries, Held
<1>5. IsFiniteSet(Entries(b, u))
  BY <1>3, <1>4, FS_Subset
<1>6. \A i : i \in Entries(b, u) <=> <<u, i>> \in References(b)
  BY ReferenceMember DEF Entries
<1> QED
  BY <1>5, <1>6

(***************************************************************************)
(* The free queue holds the pages without users: what PagePool decides by  *)
(* looking at all users, the code decides by a counter.                    *)
(***************************************************************************)
FreeIsUnused == \A b \in BlockId : b \in FreePages <=> \A u \in Request : Uses[b][u] = 0

LEMMA FreeMeansUnused == TypeInv /\ PoolInv => FreeIsUnused
<1> SUFFICES ASSUME TypeInv, PoolInv, NEW b \in BlockId
             PROVE  b \in FreePages <=> \A u \in Request : Uses[b][u] = 0
  BY DEF FreeIsUnused
<1>1. b \in FreePages <=> ref_count[b] = 0
  BY DEF FreePages, PoolInv, PoolPartition, TypeInv, TypeOK
<1>2. ref_count[b] = 0 <=> References(b) = {}
  BY FS_EmptySet DEF PoolInv, RefInv, RefCountExact
<1>3. References(b) = {} <=> \A u \in Request : Entries(b, u) = {}
  <2>1. \A u \in Request : \A i : i \in Entries(b, u) <=> <<u, i>> \in References(b)
    BY EntriesFinite DEF TypeInv
  <2>2. \A x \in References(b) : \E u, i : x = <<u, i>>
    BY ReferencesArePairs
  <2>3. \A u, i : <<u, i>> \in References(b) => u \in Request
    BY ReferenceMember
  <2>4. ASSUME References(b) = {} PROVE \A u \in Request : Entries(b, u) = {}
    BY <2>1, <2>4
  <2>5. ASSUME \A u \in Request : Entries(b, u) = {} PROVE References(b) = {}
    BY <2>1, <2>2, <2>3, <2>5
  <2> QED
    BY <2>4, <2>5
<1>4. \A u \in Request : Uses[b][u] = 0 <=> Entries(b, u) = {}
  BY EntriesFinite, FS_EmptySet DEF Uses, TypeInv
<1> QED
  BY <1>1, <1>2, <1>3, <1>4

(***************************************************************************)
(* What the steps do to Uses.                                              *)
(***************************************************************************)
LEMMA UsesByEntries ==
  ASSUME NEW b \in BlockId, NEW u \in Request
  PROVE  /\ Uses[b][u] = Cardinality(Entries(b, u))
         /\ Uses'[b][u] = Cardinality(Entries(b, u)')
BY DEF Uses

LEMMA SameEntries ==
  ASSUME TypeOK, TypeOK', NEW b \in BlockId, NEW u \in Request,
         \A i : <<u, i>> \in References(b)' <=> <<u, i>> \in References(b)
  PROVE  Uses'[b][u] = Uses[b][u]
<1>1. \A i : i \in Entries(b, u) <=> <<u, i>> \in References(b)
  BY EntriesFinite
<1>2. \A i : i \in Entries(b, u)' <=> <<u, i>> \in References(b)'
  BY ReferenceMember DEF Entries
<1>3. Entries(b, u)' = Entries(b, u)
  BY <1>1, <1>2
<1> QED
  BY <1>3, UsesByEntries

LEMMA EntryGained ==
  ASSUME TypeOK, TypeOK', NEW b \in BlockId, NEW u \in Request, NEW n,
         <<u, n>> \notin References(b), References(b)' = References(b) \cup {<<u, n>>}
  PROVE  Uses'[b][u] = Uses[b][u] + 1
<1>1. \A i : i \in Entries(b, u) <=> <<u, i>> \in References(b)
  BY EntriesFinite
<1>2. \A i : i \in Entries(b, u)' <=> <<u, i>> \in References(b)'
  BY ReferenceMember DEF Entries
<1>3. Entries(b, u)' = Entries(b, u) \cup {n} /\ n \notin Entries(b, u)
  BY <1>1, <1>2
<1> QED
  BY <1>3, UsesByEntries, EntriesFinite, FS_AddElement

LEMMA EntryLost ==
  ASSUME TypeOK, TypeOK', NEW b \in BlockId, NEW u \in Request, NEW n,
         <<u, n>> \in References(b), References(b)' = References(b) \ {<<u, n>>}
  PROVE  Uses'[b][u] = Uses[b][u] - 1 /\ Uses[b][u] > 0
<1>1. \A i : i \in Entries(b, u) <=> <<u, i>> \in References(b)
  BY EntriesFinite
<1>2. \A i : i \in Entries(b, u)' <=> <<u, i>> \in References(b)'
  BY ReferenceMember DEF Entries
<1>3. Entries(b, u)' = Entries(b, u) \ {n} /\ n \in Entries(b, u)
  BY <1>1, <1>2
<1>4. /\ Cardinality(Entries(b, u)) \in Nat /\ Cardinality(Entries(b, u)) # 0
      /\ Cardinality(Entries(b, u)') = Cardinality(Entries(b, u)) - 1
  <2>1. PICK E : E = Entries(b, u)
    OBVIOUS
  <2>2. IsFiniteSet(E) /\ n \in E /\ Entries(b, u)' = E \ {n}
    BY <1>3, <2>1, EntriesFinite
  <2>3. Cardinality(E) \in Nat
    BY <2>2, FS_CardinalityType
  <2>4. Cardinality(E) # 0
    BY <2>2, FS_EmptySet
  <2>5. Cardinality(E \ {n}) = Cardinality(E) - 1
    BY <2>2, FS_RemoveElement
  <2> QED
    BY <2>1, <2>2, <2>3, <2>4, <2>5
<1> QED
  BY <1>4, UsesByEntries

(***************************************************************************)
(* The actions of PagePool in these terms.                                 *)
(***************************************************************************)
LEMMA PoolActions ==
  ASSUME NEW s, NEW b, NEW c
  PROVE  /\ Pool!Take(s, b) <=> /\ b \in FreePages
                                /\ FreePages' = FreePages \ {b}
                                /\ Uses' = [Uses EXCEPT ![b][s] = 1]
         /\ Pool!Share(s, b) <=> /\ b \notin FreePages
                                 /\ Uses' = [Uses EXCEPT ![b][s] = @ + 1]
                                 /\ UNCHANGED FreePages
         /\ Pool!Drop(s, b) <=> /\ Uses[b][s] > 0
                                /\ Uses' = [Uses EXCEPT ![b][s] = @ - 1]
                                /\ FreePages' = IF \A u \in Request : Uses'[b][u] = 0
                                                THEN FreePages \cup {b} ELSE FreePages
         /\ Pool!Copy(s, b, c) <=> /\ c \in FreePages
                                   /\ Uses[b][s] > 0
                                   /\ Uses' = [Uses EXCEPT ![b][s] = @ - 1, ![c][s] = 1]
                                   /\ ~ \A u \in Request : Uses'[b][u] = 0
                                   /\ FreePages' = FreePages \ {c}
         /\ UNCHANGED <<FreePages, Uses>> <=> UNCHANGED Pool!poolVars
BY DEF Pool!Take, Pool!Share, Pool!Drop, Pool!Copy, Pool!Unused, Pool!poolVars,
       FreePages, Uses, Entries

(***************************************************************************)
(* A table that gains an entry takes a free page or shares one in use.     *)
(***************************************************************************)
LEMMA GainStep ==
  ASSUME TypeInv, PoolInv, TypeInv', PoolInv',
         NEW s \in Request, NEW b \in BlockId, NEW n,
         <<s, n>> \notin References(b),
         References(b)' = References(b) \cup {<<s, n>>},
         \A c \in BlockId \ {b} : References(c)' = References(c)
  PROVE  Pool!Take(s, b) \/ Pool!Share(s, b)
<1>1. Uses'[b][s] = Uses[b][s] + 1
  BY EntryGained DEF TypeInv
<1>2. ASSUME NEW c \in BlockId, NEW u \in Request, ~ (c = b /\ u = s)
      PROVE  Uses'[c][u] = Uses[c][u]
  <2>1. \A i : <<u, i>> \in References(c)' <=> <<u, i>> \in References(c)
    BY <1>2
  <2> QED
    BY <2>1, SameEntries DEF TypeInv
<1>3. FreeIsUnused /\ FreeIsUnused'
  BY FreeMeansUnused, PTL
<1>5. Uses' = [Uses EXCEPT ![b][s] = @ + 1]
  <2> DEFINE F == [Uses EXCEPT ![b][s] = @ + 1]
  <2>1. \A c \in BlockId, u \in Request : Uses'[c][u] = F[c][u]
    BY <1>1, <1>2 DEF Uses
  <2>2. DOMAIN F = BlockId /\ F = [c \in BlockId |-> F[c]]
    BY DEF Uses
  <2>3. \A c \in BlockId : F[c] = [u \in Request |-> F[c][u]]
    BY DEF Uses
  <2>4. Uses' = [c \in BlockId |-> [u \in Request |-> Uses'[c][u]]]
    BY DEF Uses
  <2> HIDE DEF F
  <2>5. Uses' = F
    BY <2>1, <2>2, <2>3, <2>4
  <2> QED
    BY <2>5 DEF F
<1>6. \A c \in BlockId, u \in Request : Uses[c][u] \in Nat
  BY UsesByEntries, EntriesFinite, FS_CardinalityType DEF TypeInv
<1>7. FreePages \subseteq BlockId /\ FreePages' \subseteq BlockId
  BY DEF FreePages, PoolInv, PoolPartition
<1>8. b \notin FreePages'
  BY <1>1, <1>3, <1>6 DEF FreeIsUnused
<1>9. \A c \in BlockId \ {b} : c \in FreePages' <=> c \in FreePages
  BY <1>2, <1>3 DEF FreeIsUnused
<1>10. CASE b \in FreePages
  <2>1. Uses[b][s] = 0
    BY <1>3, <1>10 DEF FreeIsUnused
  <2>2. Uses' = [Uses EXCEPT ![b][s] = 1]
    BY <1>5, <2>1
  <2>3. FreePages' = FreePages \ {b}
    BY <1>7, <1>8, <1>9
  <2> QED
    BY <1>10, <2>2, <2>3, PoolActions
<1>11. CASE b \notin FreePages
  <2>1. FreePages' = FreePages
    BY <1>7, <1>8, <1>9, <1>11
  <2> QED
    BY <1>5, <1>11, <2>1, PoolActions
<1> QED
  BY <1>10, <1>11

(***************************************************************************)
(* A table that loses an entry drops a page.                               *)
(***************************************************************************)
LEMMA LoseStep ==
  ASSUME TypeInv, PoolInv, TypeInv', PoolInv',
         NEW s \in Request, NEW b \in BlockId, NEW n,
         <<s, n>> \in References(b),
         References(b)' = References(b) \ {<<s, n>>},
         \A c \in BlockId \ {b} : References(c)' = References(c)
  PROVE  Pool!Drop(s, b)
<1>1. Uses'[b][s] = Uses[b][s] - 1 /\ Uses[b][s] > 0
  BY EntryLost DEF TypeInv
<1>2. ASSUME NEW c \in BlockId, NEW u \in Request, ~ (c = b /\ u = s)
      PROVE  Uses'[c][u] = Uses[c][u]
  <2>1. \A i : <<u, i>> \in References(c)' <=> <<u, i>> \in References(c)
    BY <1>2
  <2> QED
    BY <2>1, SameEntries DEF TypeInv
<1>3. FreeIsUnused /\ FreeIsUnused'
  BY FreeMeansUnused, PTL
<1>4. Uses' = [Uses EXCEPT ![b][s] = @ - 1]
  <2> DEFINE F == [Uses EXCEPT ![b][s] = @ - 1]
  <2>1. \A c \in BlockId, u \in Request : Uses'[c][u] = F[c][u]
    BY <1>1, <1>2 DEF Uses
  <2>2. DOMAIN F = BlockId /\ F = [c \in BlockId |-> F[c]]
    BY DEF Uses
  <2>3. \A c \in BlockId : F[c] = [u \in Request |-> F[c][u]]
    BY DEF Uses
  <2>4. Uses' = [c \in BlockId |-> [u \in Request |-> Uses'[c][u]]]
    BY DEF Uses
  <2> HIDE DEF F
  <2>5. Uses' = F
    BY <2>1, <2>2, <2>3, <2>4
  <2> QED
    BY <2>5 DEF F
<1>5. FreePages \subseteq BlockId /\ FreePages' \subseteq BlockId
  BY DEF FreePages, PoolInv, PoolPartition
<1>6. \A c \in BlockId \ {b} : c \in FreePages' <=> c \in FreePages
  BY <1>2, <1>3 DEF FreeIsUnused
<1>7. b \notin FreePages
  BY <1>1, <1>3 DEF FreeIsUnused
<1>8. b \in FreePages' <=> \A u \in Request : Uses'[b][u] = 0
  BY <1>3 DEF FreeIsUnused
<1>9. FreePages' = IF \A u \in Request : Uses'[b][u] = 0
                   THEN FreePages \cup {b} ELSE FreePages
  <2>1. CASE b \in FreePages'
    BY <1>5, <1>6, <1>8, <2>1
  <2>2. CASE b \notin FreePages'
    BY <1>5, <1>6, <1>7, <1>8, <2>2
  <2> QED
    BY <2>1, <2>2
<1> QED
  BY <1>1, <1>4, <1>9, PoolActions

(***************************************************************************)
(* copy_on_write moves an entry from a page with other users to a free one.*)
(***************************************************************************)
LEMMA MoveStep ==
  ASSUME TypeInv, PoolInv, TypeInv', PoolInv',
         NEW s \in Request, NEW old \in BlockId, NEW new \in BlockId, NEW n,
         ref_count[new] = 0, ref_count[old] > 1,
         <<s, n>> \in References(old), <<s, n>> \notin References(new),
         References(new)' = References(new) \cup {<<s, n>>},
         References(old)' = References(old) \ {<<s, n>>},
         \A c \in BlockId \ {old, new} : References(c)' = References(c)
  PROVE  Pool!Copy(s, old, new) /\ old # new
<1>1. old # new
  OBVIOUS
<1>2. /\ Uses'[old][s] = Uses[old][s] - 1 /\ Uses[old][s] > 0
      /\ Uses'[new][s] = Uses[new][s] + 1
  BY EntryLost, EntryGained DEF TypeInv
<1>3. ASSUME NEW c \in BlockId, NEW u \in Request, ~ (c \in {old, new} /\ u = s)
      PROVE  Uses'[c][u] = Uses[c][u]
  <2>1. \A i : <<u, i>> \in References(c)' <=> <<u, i>> \in References(c)
    BY <1>3
  <2> QED
    BY <2>1, SameEntries DEF TypeInv
<1>4. FreeIsUnused /\ FreeIsUnused'
  BY FreeMeansUnused, PTL
<1>5. new \in FreePages
  BY DEF FreePages, PoolInv, PoolPartition, TypeInv, TypeOK
<1>6. Uses[new][s] = 0
  BY <1>4, <1>5 DEF FreeIsUnused
<1>7. Uses' = [Uses EXCEPT ![old][s] = @ - 1, ![new][s] = 1]
  <2> DEFINE F == [Uses EXCEPT ![old][s] = @ - 1, ![new][s] = 1]
  <2>1. F[old][s] = Uses[old][s] - 1 /\ F[new][s] = 1
    BY <1>1 DEF Uses
  <2>2. \A c \in BlockId, u \in Request :
           ~ (c \in {old, new} /\ u = s) => F[c][u] = Uses[c][u]
    BY <1>1 DEF Uses
  <2>3. DOMAIN F = BlockId /\ F = [c \in BlockId |-> F[c]]
    BY DEF Uses
  <2>4. \A c \in BlockId : F[c] = [u \in Request |-> F[c][u]]
    BY DEF Uses
  <2>5. Uses' = [c \in BlockId |-> [u \in Request |-> Uses'[c][u]]]
    BY DEF Uses
  <2> HIDE DEF F
  <2>6. \A c \in BlockId, u \in Request : Uses'[c][u] = F[c][u]
    BY <1>2, <1>3, <1>6, <2>1, <2>2
  <2>7. Uses' = F
    BY <2>3, <2>4, <2>5, <2>6
  <2> QED
    BY <2>7 DEF F
<1>8. FreePages \subseteq BlockId /\ FreePages' \subseteq BlockId
  BY DEF FreePages, PoolInv, PoolPartition
<1>9. old \notin FreePages /\ old \notin FreePages'
  <2>1. ref_count[old] = Cardinality(References(old)) /\ IsFiniteSet(References(old))
    BY DEF PoolInv, RefInv, RefCountExact
  <2>2. ref_count'[old] = Cardinality(References(old)')
    BY DEF PoolInv, RefInv, RefCountExact
  <2>3. Cardinality(References(old)') = Cardinality(References(old)) - 1
    <3>1. PICK R, x : R = References(old) /\ x = <<s, n>>
      OBVIOUS
    <3>2. IsFiniteSet(R) /\ x \in R
      BY <2>1, <3>1
    <3>3. Cardinality(R \ {x}) = Cardinality(R) - 1
      BY <3>2, FS_RemoveElement
    <3>4. References(old)' = R \ {x}
      BY <3>1
    <3> QED
      BY <3>1, <3>3, <3>4
  <2>4. ref_count'[old] > 0
    BY <2>1, <2>2, <2>3, FS_CardinalityType
  <2>5. old \in used_block_ids'
    BY <2>4 DEF PoolInv, PoolPartition
  <2>6. old \in used_block_ids
    <3>1. ref_count \in [BlockId -> Int]
      BY DEF TypeInv, TypeOK
    <3>2. ref_count[old] \in Int
      BY <3>1
    <3>3. ref_count[old] > 0
      BY <3>2
    <3> QED
      BY <3>3 DEF PoolInv, PoolPartition
  <2> QED
    BY <2>5, <2>6 DEF FreePages, PoolInv, PoolPartition
<1>10. ~ \A u \in Request : Uses'[old][u] = 0
  BY <1>4, <1>9 DEF FreeIsUnused
<1>11. new \notin FreePages'
  BY <1>2, <1>4, <1>6 DEF FreeIsUnused
<1>12. \A c \in BlockId \ {old, new} : c \in FreePages' <=> c \in FreePages
  BY <1>3, <1>4 DEF FreeIsUnused
<1>13. FreePages' = FreePages \ {new}
  BY <1>8, <1>9, <1>11, <1>12
<1> QED
  BY <1>1, <1>2, <1>5, <1>7, <1>10, <1>13, PoolActions

(***************************************************************************)
(* Every other step is invisible to PagePool.                              *)
(***************************************************************************)
LEMMA QuietStep ==
  ASSUME TypeInv, TypeInv', UNCHANGED <<block_table, free_block_ids>>,
         \A s \in Request : Held(s)' = Held(s)
  PROVE  UNCHANGED Pool!poolVars
<1>1. \A b \in BlockId, u \in Request : Entries(b, u)' = Entries(b, u)
  BY DEF Entries
<1>2. Uses' = Uses
  BY <1>1 DEF Uses
<1>3. FreePages' = FreePages
  BY DEF FreePages
<1> QED
  BY <1>2, <1>3, PoolActions

LEMMA UserSteps ==
  ASSUME NEW s \in Request, NEW b \in BlockId,
         \/ Pool!Take(s, b) \/ Pool!Share(s, b) \/ Pool!Drop(s, b)
         \/ \E c \in BlockId \ {b} : Pool!Copy(s, b, c)
  PROVE  Pool!Next
BY DEF Pool!Next

(***************************************************************************)
(* The methods that add an entry to a page table.                          *)
(***************************************************************************)
LEMMA AppendedEntry ==
  ASSUME TypeInv, PoolInv, TypeInv', PoolInv',
         op # "swap_out", op' # "swap_out",
         NEW s \in Request, NEW b \in BlockId,
         block_table' = [block_table EXCEPT ![s] = Append(block_table[s], b)]
  PROVE  Pool!Next
<1>1. PICK x : x = <<s, Len(block_table[s]) + 1>>
  OBVIOUS
<1>2. /\ x \notin References(b)
      /\ References(b)' = References(b) \cup {x}
      /\ \A c \in BlockId \ {b} : References(c)' = References(c)
  BY <1>1, AppendReference DEF TypeInv
<1> QED
  BY <1>1, <1>2, GainStep, UserSteps

LEMMA AllocateStepPages ==
  ASSUME TypeInv, PoolInv, TypeInv', PoolInv', AllocateStep
  PROVE  Pool!Next
<1>1. PICK s \in Request : s = cur
  BY BlockManagerAssumption
  DEF TypeInv, TypeOK, AllocateStep, AllocateMiss, AllocateShared, AllocateRevived
<1>2. op = "allocate"
  BY DEF AllocateStep, AllocateMiss, AllocateShared, AllocateRevived
<1>3. PICK b : AddToTable(b)
  BY DEF AllocateStep, AllocateMiss, AllocateShared, AllocateRevived
<1>4. /\ block_table' = [block_table EXCEPT ![s] = Append(block_table[s], b)]
      /\ op' # "swap_out"
  BY <1>1, <1>2, <1>3 DEF AddToTable, Return, Call
<1>5. b \in BlockId
  <2>1. block_table[s] \in Seq(BlockId) /\ block_table'[s] = Append(block_table[s], b)
    BY <1>4 DEF TypeInv, TypeOK
  <2>2. PICK n \in Nat : n = Len(block_table[s])
    BY <2>1, LenProperties
  <2>3. Append(block_table[s], b)[n + 1] = b /\ n + 1 \in DOMAIN Append(block_table[s], b)
    BY <2>1, <2>2
  <2>4. block_table'[s] \in Seq(BlockId)
    BY DEF TypeInv, TypeOK
  <2> QED
    BY <2>1, <2>3, <2>4, ElementOfSeq, LenProperties
<1> QED
  BY <1>2, <1>4, <1>5, AppendedEntry

LEMMA SwapInStepPages ==
  ASSUME TypeInv, PoolInv, TypeInv', PoolInv', SwapInStep
  PROVE  Pool!Next
<1>1. PICK s \in Request : s = cur
  BY BlockManagerAssumption DEF TypeInv, TypeOK, SwapInStep
<1>2. /\ block_table' = [block_table EXCEPT ![s] = Append(block_table[s], Head(free_block_ids))]
      /\ op = "swap_in" /\ op' # "swap_out"
  BY <1>1 DEF SwapInStep, Return, Call
<1>3. Head(free_block_ids) \in BlockId
  <2>1. Len(block_table[s]) \in Nat /\ Len(block_table[s]) < Len(cpu_block_table[s])
    BY <1>1, <1>2, LenProperties DEF TypeInv, TypeOK, MethodHasRoom
  <2>2. /\ free_block_ids \in Seq(BlockId)
        /\ Len(cpu_block_table[s]) <= Len(block_table[s]) + Len(free_block_ids)
        /\ Len(cpu_block_table[s]) \in Nat
    BY <1>1, <1>2, LenProperties DEF TypeInv, TypeOK, MethodHasRoom
  <2>3. free_block_ids # <<>>
    BY <2>1, <2>2, EmptySeq
  <2> QED
    BY <2>2, <2>3, EndsType
<1> QED
  BY <1>2, <1>3, AppendedEntry

(***************************************************************************)
(* The methods that take an entry from a page table.                       *)
(***************************************************************************)
LEMMA DeallocateStepPages ==
  ASSUME TypeInv, PoolInv, TypeInv', PoolInv', DeallocateStep
  PROVE  Pool!Next
<1>1. PICK s \in Request : s = cur
  BY BlockManagerAssumption DEF TypeInv, TypeOK, DeallocateStep
<1>2. /\ TypeOK
      /\ op = "deallocate" /\ op' # "swap_out"
      /\ block_table[s] \in Seq(BlockId) /\ block_table[s] # <<>>
      /\ block_table' = [block_table EXCEPT ![s] = Front(block_table[s])]
  BY <1>1 DEF TypeInv, TypeOK, MethodHasRoom, DeallocateStep, Return, Call, callVars
<1>3. PICK b \in BlockId : b = Last(block_table[s])
  BY <1>2, EndsType
<1>4. PICK x : x = <<s, Len(block_table[s])>>
  OBVIOUS
<1>5. /\ x \in References(b)
      /\ References(b)' = References(b) \ {x}
      /\ \A c \in BlockId \ {b} : References(c)' = References(c)
  BY <1>2, <1>3, <1>4, FrontReference
<1> QED
  BY <1>4, <1>5, LoseStep, UserSteps

LEMMA SwapOutStepPages ==
  ASSUME TypeInv, PoolInv, TypeInv', PoolInv', SwapOutStep
  PROVE  Pool!Next
<1>1. PICK s \in Request : s = cur
  BY BlockManagerAssumption DEF TypeInv, TypeOK, SwapOutStep
<1>2. PICK n : n = Len(cpu_block_table[s])
  OBVIOUS
<1>3. PICK x : x = <<s, n + 1>>
  OBVIOUS
<1>4. PICK b \in BlockId : /\ x \in References(b)
                          /\ References(b)' = References(b) \ {x}
                          /\ \A c \in BlockId \ {b} : References(c)' = References(c)
  BY <1>1, <1>2, <1>3, SwapOutReference
<1> QED
  BY <1>3, <1>4, LoseStep, UserSteps

(***************************************************************************)
(* The step before a token is written, and may_append itself.              *)
(***************************************************************************)
LEMMA QuietCallPages ==
  ASSUME TypeInv, TypeInv', UNCHANGED <<block_table, free_block_ids>>,
         op # "swap_out", op' # "swap_out"
  PROVE  UNCHANGED Pool!poolVars
BY HeldOutsideSwapOut, QuietStep

LEMMA CopyOnWritePages ==
  ASSUME TypeInv, PoolInv, TypeInv', PoolInv', NEW s \in Request, CopyOnWrite(s)
  PROVE  Pool!Next \/ UNCHANGED Pool!poolVars
<1>1. op = "idle" /\ block_table[s] # <<>>
  BY DEF TypeInv, TablesFollowStatus, CopyOnWrite, Idle
<1>2. CASE /\ Call("may_append", s) \/ UNCHANGED callVars
           /\ UNCHANGED <<block_table, poolVars>>
  BY <1>1, <1>2, QuietCallPages DEF Call, callVars, poolVars
<1>3. CASE CopiesLastBlock(s)
  <2>1. PICK x : x = <<s, Len(block_table[s])>>
    OBVIOUS
  <2>2. PICK old, new \in BlockId :
          /\ ref_count[new] = 0 /\ ref_count[old] > 1
          /\ x \in References(old) /\ x \notin References(new)
          /\ References(new)' = References(new) \cup {x}
          /\ References(old)' = References(old) \ {x}
          /\ \A c \in BlockId \ {new, old} : References(c)' = References(c)
    BY <1>1, <1>3, <2>1, CopyReference
  <2>3. Pool!Copy(s, old, new) /\ old # new
    BY <2>1, <2>2, MoveStep
  <2> QED
    BY <2>3, UserSteps
<1> QED
  BY <1>1, <1>2, <1>3 DEF CopyOnWrite, CopiesLastBlock

LEMMA AppendStepPages ==
  ASSUME TypeInv, PoolInv, TypeInv', PoolInv', AppendStep
  PROVE  Pool!Next \/ UNCHANGED Pool!poolVars
<1>1. op = "may_append" /\ op' # "swap_out"
  BY DEF AppendStep, AppendNewBlock, AppendFillsBlock, AppendInside, AppendRaises,
         Appending, AppendDone, Return, Call, Raise, callVars
<1>2. PICK s \in Request : s = cur
  BY <1>1, BlockManagerAssumption DEF TypeInv, TypeOK
<1>3. CASE AppendNewBlock
  <2>1. Head(free_block_ids) \in BlockId
    BY <1>3, EndsType DEF AppendNewBlock, TypeInv, TypeOK
  <2>2. block_table' = [block_table EXCEPT ![s] = Append(block_table[s], Head(free_block_ids))]
    BY <1>2, <1>3 DEF AppendNewBlock
  <2> QED
    BY <1>1, <2>1, <2>2, AppendedEntry
<1>4. CASE AppendFillsBlock \/ AppendInside \/ AppendRaises
  <2>1. UNCHANGED <<block_table, free_block_ids>>
    BY <1>4 DEF AppendFillsBlock, AppendInside, AppendRaises, Raise, poolVars
  <2> QED
    BY <1>1, <2>1, QuietCallPages
<1> QED
  BY <1>3, <1>4 DEF AppendStep

LEMMA PreemptPages ==
  ASSUME TypeInv, TypeInv', NEW s \in Request, Preempt(s)
  PROVE  UNCHANGED Pool!poolVars
<1>1. op = "idle" /\ UNCHANGED <<block_table, cpu_block_table, free_block_ids>>
  BY DEF Preempt, Idle, poolVars
<1>2. cpu_block_table[s] = <<>> /\ block_table[s] \in Seq(BlockId)
  BY BlockManagerAssumption DEF TypeInv, TypeOK, TablesFollowStatus, Preempt, Idle
<1>3. CASE op' = "deallocate"
  BY <1>1, <1>3, QuietCallPages
<1>4. CASE op' = "swap_out" /\ cur' = s
  <2>1. \A i \in DOMAIN block_table[s] : i > Len(cpu_block_table[s])
    BY <1>2, LenProperties, EmptySeq
  <2>2. \A u \in Request : Held(u)' = Held(u)
    BY <1>1, <1>4, <2>1 DEF Held
  <2> QED
    BY <1>1, <2>2, QuietStep
<1> QED
  BY <1>3, <1>4 DEF Preempt, Call

LEMMA InitPages ==
  ASSUME Init
  PROVE  Pool!Init
<1>1. FreePages = BlockId
  BY InitPool DEF FreePages, PoolInv, PoolPartition, Init
<1>2. \A b \in BlockId, u \in Request : Entries(b, u) = {}
  BY EmptySeq DEF Entries, Held, Init
<1>3. \A b \in BlockId, u \in Request : Uses[b][u] = 0
  BY <1>2, UsesByEntries, FS_EmptySet
<1>4. Uses = [b \in BlockId |-> [u \in Request |-> 0]]
  BY <1>3 DEF Uses
<1> QED
  BY <1>1, <1>4 DEF Pool!Init, FreePages, Uses, Entries

(***************************************************************************)
(* The block manager, with its queue, its counters and its hash index, is  *)
(* a pool of pages with users: every iteration of every method takes,      *)
(* shares, drops or copies one page for one sequence, or is invisible; a   *)
(* page is free when and only when no page table names it.                 *)
(***************************************************************************)
THEOREM PagePoolImplemented == Spec => ImplementsPagePool
<1>1. Init => Pool!Init
  BY InitPages
<1>2. /\ TypeInv /\ PoolInv /\ [Next]_vars
      /\ TypeInv' /\ PoolInv'
      => [Pool!Next]_(Pool!poolVars)
  <2> SUFFICES ASSUME TypeInv, PoolInv, TypeInv', PoolInv', [Next]_vars
               PROVE  Pool!Next \/ UNCHANGED Pool!poolVars
    OBVIOUS
  <2>1. ASSUME NEW s \in Request,
               \/ NewSequence(s)
               \/ \E t \in Token : append_token(s, t)
               \/ \E n \in ChunkEnds : RecordComputed(s, n)
               \/ BeginAllocate(s) \/ BeginFinish(s) \/ BeginSwapIn(s)
        PROVE  UNCHANGED Pool!poolVars
    <3>1. /\ op = "idle"
          /\ UNCHANGED <<block_table, free_block_ids>>
          /\ op' # "swap_out"
      BY <2>1 DEF NewSequence, append_token, RecordComputed, BeginAllocate,
                  BeginFinish, BeginSwapIn, Idle, Call, callVars, poolVars
    <3> QED
      BY <3>1, QuietCallPages
  <2>2. CASE UNCHANGED vars
    <3>1. UNCHANGED <<block_table, free_block_ids>> /\ \A s \in Request : Held(s)' = Held(s)
      BY <2>2 DEF Held, vars, callVars, poolVars
    <3> QED
      BY <3>1, QuietStep
  <2>3. ASSUME NEW s \in Request, Preempt(s) PROVE UNCHANGED Pool!poolVars
    BY <2>3, PreemptPages
  <2>4. ASSUME NEW s \in Request, CopyOnWrite(s)
        PROVE Pool!Next \/ UNCHANGED Pool!poolVars
    BY <2>4, CopyOnWritePages
  <2> QED
    BY <2>1, <2>2, <2>3, <2>4, AllocateStepPages, DeallocateStepPages, SwapOutStepPages,
       SwapInStepPages, AppendStepPages DEF Next, Stopped
<1> QED
  BY <1>1, <1>2, PoolInvariant, PTL DEF Spec, ImplementsPagePool, Pool!Spec

-----------------------------------------------------------------------------
(* Blocks of a sequence and the chain hash.                                *)

(***************************************************************************)
(* A table of PagesFor(n) pages reaches the n-th token, and no further     *)
(* than it needs to.                                                       *)
(***************************************************************************)
LEMMA PagesReach ==
  ASSUME NEW n \in Nat
  PROVE  /\ PagesFor(n) \in Nat
         /\ \A i \in Nat : i < PagesFor(n) <=> i * BlockSize < n
<1> DEFINE q == PagesFor(n)
           r == (n + BlockSize - 1) % BlockSize
<1>1. BlockSize \in Nat /\ BlockSize >= 2
  BY BlockManagerAssumption
<1>2. /\ q \in Nat /\ r \in 0 .. BlockSize - 1
      /\ n + BlockSize - 1 = q * BlockSize + r
  BY <1>1 DEF PagesFor
<1> HIDE DEF q, r
<1>3. ASSUME NEW i \in Nat, i < q PROVE i * BlockSize < n
  <2>1. PICK d \in Nat : q = i + 1 + d
    <3>1. q - i - 1 \in Nat /\ q = i + 1 + (q - i - 1)
      BY <1>2, <1>3
    <3> QED
      BY <3>1
  <2>2. q * BlockSize = i * BlockSize + BlockSize + d * BlockSize
    BY <1>1, <2>1
  <2>3. d * BlockSize \in Nat /\ i * BlockSize \in Nat
    BY <1>1, <2>1
  <2> QED
    BY <1>1, <1>2, <2>2, <2>3
<1>4. ASSUME NEW i \in Nat, i >= q PROVE i * BlockSize >= n
  <2>1. PICK d \in Nat : i = q + d
    <3>1. i - q \in Nat /\ i = q + (i - q)
      BY <1>2, <1>4
    <3> QED
      BY <3>1
  <2>2. i * BlockSize = q * BlockSize + d * BlockSize
    BY <1>1, <1>2, <2>1
  <2>3. d * BlockSize \in Nat /\ q * BlockSize \in Nat
    BY <1>1, <1>2, <2>1
  <2> QED
    BY <1>1, <1>2, <2>2, <2>3
<1>5. ASSUME NEW i \in Nat PROVE i < q <=> i * BlockSize < n
  <2>1. i * BlockSize \in Nat
    BY <1>1
  <2> QED
    BY <1>2, <1>3, <1>4, <2>1
<1> QED
  BY <1>2, <1>5 DEF q

(***************************************************************************)
(* The block behind n full ones: its length, and that it extends the chain *)
(* when it is full.                                                        *)
(***************************************************************************)
LEMMA BlockBehind ==
  ASSUME TypeOK, NEW s \in Request, NEW n \in Nat, n * BlockSize < SeqLen(s)
  PROVE  /\ Len(block(s, n + 1)) = BlockSize <=> (n + 1) * BlockSize <= SeqLen(s)
         /\ (n + 1) * BlockSize <= SeqLen(s) =>
              PrefixHash(s, n + 1) = PrefixHash(s, n) \o block(s, n + 1)
<1>1. BlockSize \in Nat /\ BlockSize >= 2
  BY BlockManagerAssumption
<1>2. PICK t : t = token_ids[s]
  OBVIOUS
<1>3. t \in Seq(Token) /\ SeqLen(s) = Len(t) /\ Len(t) \in Nat
  BY <1>2, LenProperties DEF TypeOK, SeqLen
<1>4. PICK p \in Nat : p = n * BlockSize
  BY <1>1
<1>5. (n + 1) * BlockSize = p + BlockSize
  BY <1>1, <1>4
<1> DEFINE last == IF p + BlockSize <= Len(t) THEN p + BlockSize ELSE Len(t)
<1>6. block(s, n + 1) = SubSeq(t, p + 1, last)
  <2>1. ((n + 1) - 1) * BlockSize + 1 = p + 1
    BY <1>1, <1>4
  <2>2. block(s, n + 1) =
          SubSeq(token_ids[s], ((n + 1) - 1) * BlockSize + 1,
                 IF (n + 1) * BlockSize <= SeqLen(s)
                 THEN (n + 1) * BlockSize ELSE SeqLen(s))
    BY DEF block
  <2> HIDE DEF last
  <2>3. (IF (n + 1) * BlockSize <= SeqLen(s)
         THEN (n + 1) * BlockSize ELSE SeqLen(s)) = last
    BY <1>3, <1>5 DEF last
  <2> QED
    BY <1>2, <2>1, <2>2, <2>3
<1>7. last \in Nat /\ p + 1 <= last /\ last <= Len(t)
  BY <1>1, <1>3, <1>4
<1>8. last - p = BlockSize <=> p + BlockSize <= Len(t)
  BY <1>1, <1>3, <1>4
<1>9. p + BlockSize <= Len(t) => last = p + BlockSize
  OBVIOUS
<1> HIDE DEF last
<1>10. \A j \in p + 1 .. last : t[j] \in Token
  BY <1>3, <1>7, ElementOfSeq
<1>11. Len(block(s, n + 1)) = last - p
  <2>1. p + 1 \in Int /\ last \in Int
    BY <1>7
  <2>2. Len(SubSeq(t, p + 1, last)) = last - (p + 1) + 1
    BY <1>7, <1>10, <2>1, SubSeqProperties
  <2> QED
    BY <1>6, <1>7, <2>2
<1>12. ASSUME p + BlockSize <= Len(t)
       PROVE  PrefixHash(s, n + 1) = PrefixHash(s, n) \o block(s, n + 1)
  <2>1. /\ PrefixHash(s, n) = SubSeq(t, 1, p)
        /\ PrefixHash(s, n + 1) = SubSeq(t, 1, p + BlockSize)
        /\ block(s, n + 1) = SubSeq(t, p + 1, p + BlockSize)
    BY <1>2, <1>4, <1>5, <1>6, <1>9, <1>12 DEF PrefixHash
  <2>2. SubSeq(t, 1, p) \o SubSeq(t, p + 1, p + BlockSize) = SubSeq(t, 1, p + BlockSize)
    BY <1>1, <1>3, <1>12, ConcatAdjacentSubSeq
  <2> QED
    BY <2>1, <2>2
<1> QED
  BY <1>3, <1>5, <1>8, <1>11, <1>12

(***************************************************************************)
(* Chains.                                                                 *)
(***************************************************************************)
LEMMA PrefixType ==
  ASSUME TypeOK, NEW s \in Request, NEW n \in Nat, n * BlockSize <= SeqLen(s)
  PROVE  /\ PrefixHash(s, n) \in Seq(Token)
         /\ Len(PrefixHash(s, n)) = n * BlockSize
<1>1. BlockSize \in Nat /\ BlockSize >= 2
  BY BlockManagerAssumption
<1>2. PICK t : t = token_ids[s]
  OBVIOUS
<1>3. t \in Seq(Token) /\ SeqLen(s) = Len(t) /\ Len(t) \in Nat
  BY <1>2, LenProperties DEF TypeOK, SeqLen
<1>4. PICK p \in Nat : p = n * BlockSize
  BY <1>1
<1>5. \A j \in 1 .. p : t[j] \in Token
  BY <1>3, <1>4, ElementOfSeq
<1>6. /\ SubSeq(t, 1, p) \in Seq(Token)
      /\ Len(SubSeq(t, 1, p)) = IF 1 <= p THEN p - 1 + 1 ELSE 0
  BY <1>5, SubSeqProperties
<1> QED
  BY <1>2, <1>4, <1>6 DEF PrefixHash

LEMMA EmptyPrefix ==
  ASSUME NEW s \in Request
  PROVE  PrefixHash(s, 0) = NoHash
<1>1. 0 * BlockSize = 0
  BY BlockManagerAssumption
<1>2. SubSeq(token_ids[s], 1, 0) = <<>>
  BY SubSeqEmpty
<1> QED
  BY <1>1, <1>2 DEF PrefixHash, NoHash

(***************************************************************************)
(* A chain ends with the block that was added last.                        *)
(***************************************************************************)
LEMMA ChainEnd ==
  ASSUME NEW h \in Seq(Token), NEW t \in Seq(Token), Len(t) = BlockSize
  PROVE  LastBlockOf(compute_hash(t, h)) = t /\ compute_hash(t, h) # NoHash
<1>1. BlockSize \in Nat /\ BlockSize >= 2
  BY BlockManagerAssumption
<1>2. PICK c : c = h \o t
  OBVIOUS
<1>3. PICK m \in Nat : m = Len(h)
  BY LenProperties
<1>4. /\ c \in Seq(Token)
      /\ Len(c) = m + BlockSize
      /\ \A i \in 1 .. m + BlockSize : c[i] = IF i <= m THEN h[i] ELSE t[i - m]
  BY <1>2, <1>3, ConcatProperties
<1>5. LastBlockOf(c) = SubSeq(c, m + 1, m + BlockSize)
  <2>1. Len(c) - BlockSize + 1 = m + 1
    BY <1>1, <1>3, <1>4
  <2> QED
    BY <1>4, <2>1 DEF LastBlockOf
<1>6. \A i \in m + 1 .. m + BlockSize : c[i] \in Token
  BY <1>1, <1>4, ElementOfSeq
<1>7. /\ LastBlockOf(c) \in Seq(Token)
      /\ Len(LastBlockOf(c)) = BlockSize
      /\ \A i \in 1 .. BlockSize : LastBlockOf(c)[i] = c[m + 1 + i - 1]
  <2>1. m + 1 \in Int /\ m + BlockSize \in Int /\ m + 1 <= m + BlockSize
    BY <1>1
  <2>2. m + BlockSize - (m + 1) + 1 = BlockSize
    BY <1>1
  <2>3. \A i \in m + 1 .. m + BlockSize : c[i] \in Token
    BY <1>6
  <2>4. /\ SubSeq(c, m + 1, m + BlockSize) \in Seq(Token)
        /\ Len(SubSeq(c, m + 1, m + BlockSize)) =
             IF m + 1 <= m + BlockSize THEN m + BlockSize - (m + 1) + 1 ELSE 0
        /\ \A i \in 1 .. m + BlockSize - (m + 1) + 1 :
             SubSeq(c, m + 1, m + BlockSize)[i] = c[m + 1 + i - 1]
    BY <2>1, <2>3, SubSeqProperties
  <2> QED
    BY <1>5, <2>1, <2>2, <2>4
<1>8. \A i \in 1 .. BlockSize : LastBlockOf(c)[i] = t[i]
  <2> TAKE i \in 1 .. BlockSize
  <2>1. PICK j \in 1 .. m + BlockSize :
          j = m + 1 + i - 1 /\ ~ (j <= m) /\ j - m = i
    BY <1>1
  <2>2. LastBlockOf(c)[i] = c[j]
    BY <1>7, <2>1
  <2>3. c[j] = t[j - m]
    BY <1>4, <2>1
  <2> QED
    BY <2>1, <2>2, <2>3
<1>9. LastBlockOf(c) = t
  BY <1>7, <1>8, SeqEqual
<1>10. c # <<>>
  BY <1>1, <1>4, EmptySeq
<1> QED
  BY <1>2, <1>9, <1>10 DEF compute_hash, NoHash

(***************************************************************************)
(* A new token changes no block that was full before.                      *)
(***************************************************************************)
LEMMA PrefixKept ==
  ASSUME NEW t \in Seq(Token), NEW e \in Token, NEW p \in Nat, p <= Len(t)
  PROVE  SubSeq(Append(t, e), 1, p) = SubSeq(t, 1, p)
<1>1. /\ Append(t, e) \in Seq(Token)
      /\ \A i \in 1 .. Len(t) : Append(t, e)[i] = t[i]
      /\ Len(t) \in Nat
  BY AppendProperties, LenProperties
<1>2. \A i \in 1 .. p : Append(t, e)[i] = t[i] /\ t[i] \in Token
  BY <1>1, ElementOfSeq
<1>3. /\ SubSeq(t, 1, p) \in Seq(Token)
      /\ Len(SubSeq(t, 1, p)) = IF 1 <= p THEN p - 1 + 1 ELSE 0
      /\ \A i \in 1 .. p - 1 + 1 : SubSeq(t, 1, p)[i] = t[1 + i - 1]
  BY <1>2, SubSeqProperties
<1>4. /\ SubSeq(Append(t, e), 1, p) \in Seq(Token)
      /\ Len(SubSeq(Append(t, e), 1, p)) = IF 1 <= p THEN p - 1 + 1 ELSE 0
      /\ \A i \in 1 .. p - 1 + 1 : SubSeq(Append(t, e), 1, p)[i] = Append(t, e)[1 + i - 1]
  BY <1>2, SubSeqProperties
<1>5. \A i \in 1 .. p : SubSeq(Append(t, e), 1, p)[i] = SubSeq(t, 1, p)[i]
  <2> TAKE i \in 1 .. p
  <2>1. i \in 1 .. p - 1 + 1 /\ 1 + i - 1 = i
    OBVIOUS
  <2> QED
    BY <1>2, <1>3, <1>4, <2>1
<1>6. Len(SubSeq(t, 1, p)) = p /\ Len(SubSeq(Append(t, e), 1, p)) = p
  BY <1>3, <1>4
<1> QED
  BY <1>3, <1>4, <1>5, <1>6, SeqEqual

-----------------------------------------------------------------------------
(* The invariant.                                                          *)

\* The tokens of a sequence whose blocks, when full, are labelled; allocate
\* labels the blocks before their tokens count as placed.
Settled(s) ==
  IF placed[s] \/ (op = "allocate" /\ cur = s) THEN SeqLen(s) ELSE SeqLen(s) - 1

EntryHash(s, i) == block_hash[block_table[s][i]]

IndexInv == NoHash \notin DOMAIN hash_to_block_id /\ LabelsIndexed

(***************************************************************************)
(* A block in a page table is labelled when the tokens it stands for are   *)
(* placed and fill it, and not labelled when they cannot fill it.  In      *)
(* between lies the block that the last token fills: may_append labels it  *)
(* late, swap_in early.                                                    *)
(***************************************************************************)
LabelsFollow ==
  \A s \in Request : \A i \in Held(s) :
    /\ i * BlockSize <= Settled(s) => EntryHash(s, i) # NoHash
    /\ i * BlockSize > SeqLen(s) => EntryHash(s, i) = NoHash

(***************************************************************************)
(* As long as contents determine prefixes, the label of a block is the     *)
(* chain of every sequence that holds it.                                  *)
(***************************************************************************)
LabelsArePrefixes ==
  BlocksDeterminePrefix =>
    \A s \in Request : \A i \in Held(s) :
      EntryHash(s, i) # NoHash => EntryHash(s, i) = PrefixHash(s, i)

\* The local variable h of allocate and of swap_in.
ChainFollows ==
  op \in {"allocate", "swap_in"} => chain = PrefixHash(cur, Len(block_table[cur]))

LabelInv == IndexInv /\ SharedBlocksFull /\ LabelsFollow /\ LabelsArePrefixes

CacheInv == LabelInv /\ ChainFollows

-----------------------------------------------------------------------------
(* What a step that labels a block does.                                   *)

LEMMA LabelEffect ==
  ASSUME TypeOK, NEW b \in BlockId, NEW h, NEW tokens, Label(b, h, tokens)
  PROVE  /\ block_hash'[b] = h
         /\ block_token_ids'[b] = IF h = NoHash THEN <<>> ELSE tokens
         /\ \A c \in BlockId \ {b} : /\ block_hash'[c] = block_hash[c]
                                     /\ block_token_ids'[c] = block_token_ids[c]
<1>1. /\ block_hash' = [block_hash EXCEPT ![b] = h]
      /\ block_token_ids' = [block_token_ids EXCEPT ![b] = IF h = NoHash THEN <<>> ELSE tokens]
  BY DEF Label
<1>2. block_hash \in [BlockId -> Seq(Token)] /\ block_token_ids \in [BlockId -> Seq(Token)]
  BY DEF TypeOK
<1> QED
  BY <1>1, <1>2

LEMMA LabelIndexes ==
  ASSUME NEW b, NEW h, NEW tokens, Label(b, h, tokens)
  PROVE  DOMAIN hash_to_block_id' = DOMAIN hash_to_block_id \cup ({h} \ {NoHash})
BY DEF Label

(***************************************************************************)
(* Chains stay in the index for ever.                                      *)
(***************************************************************************)
LEMMA LabelKeepsPremise ==
  ASSUME NEW b, NEW h, NEW tokens, Label(b, h, tokens)
  PROVE  BlocksDeterminePrefix' => BlocksDeterminePrefix
<1>1. DOMAIN hash_to_block_id \subseteq DOMAIN hash_to_block_id'
  BY LabelIndexes
<1> QED
  BY <1>1 DEF BlocksDeterminePrefix, LastBlockOf

(***************************************************************************)
(* A label goes with the last block of its chain.                          *)
(***************************************************************************)
LEMMA LabelKeepsIndex ==
  ASSUME TypeOK, IndexInv, NEW b \in BlockId, NEW h, NEW tokens, Label(b, h, tokens),
         h # NoHash => LastBlockOf(h) = tokens
  PROVE  IndexInv'
<1>1. /\ block_hash'[b] = h
      /\ block_token_ids'[b] = IF h = NoHash THEN <<>> ELSE tokens
      /\ \A c \in BlockId \ {b} : /\ block_hash'[c] = block_hash[c]
                                  /\ block_token_ids'[c] = block_token_ids[c]
  BY LabelEffect
<1>2. /\ NoHash \notin DOMAIN hash_to_block_id'
      /\ DOMAIN hash_to_block_id \subseteq DOMAIN hash_to_block_id'
      /\ h # NoHash => h \in DOMAIN hash_to_block_id'
  BY LabelIndexes DEF IndexInv
<1>3. ASSUME NEW c \in BlockId
      PROVE  IF block_hash'[c] = NoHash
             THEN block_token_ids'[c] = <<>>
             ELSE /\ block_hash'[c] \in DOMAIN hash_to_block_id'
                  /\ block_token_ids'[c] = LastBlockOf(block_hash'[c])
  <2>1. CASE c = b
    BY <1>1, <1>2, <2>1
  <2>2. CASE c # b
    BY <1>1, <1>2, <2>2 DEF IndexInv, LabelsIndexed
  <2> QED
    BY <2>1, <2>2
<1> QED
  BY <1>2, <1>3 DEF IndexInv, LabelsIndexed, LastBlockOf

LEMMA HeldEntry ==
  ASSUME TypeOK, NEW u \in Request, NEW i \in Held(u)
  PROVE  i \in Nat \ {0} /\ i <= Len(block_table[u]) /\ block_table[u][i] \in BlockId
<1>1. block_table[u] \in Seq(BlockId) /\ i \in DOMAIN block_table[u]
  BY DEF TypeOK, Held
<1> QED
  BY <1>1, LenProperties, ElementOfSeq

(***************************************************************************)
(* No page table names a block with the count 0.                           *)
(***************************************************************************)
LEMMA NotHeld ==
  ASSUME PoolInv, NEW b \in BlockId, ref_count[b] = 0, NEW u \in Request, NEW i \in Held(u)
  PROVE  block_table[u][i] # b
<1>1. ~ (<<u, i>> \in References(b))
  BY ReferencedCounts DEF PoolInv
<1> QED
  BY <1>1, ReferenceMember

LEMMA FreeHasNoCount ==
  ASSUME TypeOK, PoolInv, NEW b \in BlockId,
         b \in Range(free_block_ids) \/ b \notin used_block_ids
  PROVE  ref_count[b] = 0
BY DEF TypeOK, PoolInv, PoolPartition

(***************************************************************************)
(* The invariant about the entries after a step: entries other than the    *)
(* n-th of s are those that were there, and keep their labels as far as it *)
(* matters.                                                                *)
(***************************************************************************)
LEMMA EntriesKept ==
  ASSUME LabelsFollow, LabelsArePrefixes, UNCHANGED token_ids,
         BlocksDeterminePrefix' => BlocksDeterminePrefix,
         NEW s, NEW n,
         \A u \in Request : \A i \in Held(u)' : ~ (u = s /\ i = n) =>
           /\ i \in Held(u)
           /\ EntryHash(u, i)' = NoHash <=> EntryHash(u, i) = NoHash
           /\ BlocksDeterminePrefix' => EntryHash(u, i)' = EntryHash(u, i)
           /\ i * BlockSize <= Settled(u)' => i * BlockSize <= Settled(u),
         s \in Request /\ n \in Held(s)' =>
           /\ n * BlockSize <= Settled(s)' => EntryHash(s, n)' # NoHash
           /\ n * BlockSize > SeqLen(s) => EntryHash(s, n)' = NoHash
           /\ BlocksDeterminePrefix' /\ EntryHash(s, n)' # NoHash
                => EntryHash(s, n)' = PrefixHash(s, n)
  PROVE  LabelsFollow' /\ LabelsArePrefixes'
<1>1. \A u : /\ SeqLen(u)' = SeqLen(u)
             /\ \A i : PrefixHash(u, i)' = PrefixHash(u, i)
  BY DEF SeqLen, PrefixHash
<1>2. ASSUME NEW u \in Request, NEW i \in Held(u)'
      PROVE  /\ i * BlockSize <= Settled(u)' => EntryHash(u, i)' # NoHash
             /\ i * BlockSize > SeqLen(u) => EntryHash(u, i)' = NoHash
             /\ BlocksDeterminePrefix' /\ EntryHash(u, i)' # NoHash
                  => EntryHash(u, i)' = PrefixHash(u, i)
  <2>1. CASE u = s /\ i = n
    BY <2>1
  <2>2. CASE ~ (u = s /\ i = n)
    BY <2>2 DEF LabelsFollow, LabelsArePrefixes
  <2> QED
    BY <2>1, <2>2
<1>3. LabelsFollow'
  BY <1>1, <1>2 DEF LabelsFollow
<1>4. LabelsArePrefixes'
  BY <1>1, <1>2 DEF LabelsArePrefixes
<1> QED
  BY <1>3, <1>4

(***************************************************************************)
(* Steps that label nothing and put nothing into a table.                  *)
(***************************************************************************)
LEMMA QuietLabels ==
  ASSUME LabelInv, UNCHANGED <<token_ids, cacheVars>>,
         \A b \in BlockId : ref_count'[b] > 1 => ref_count[b] > 1,
         \A u \in Request : \A i \in Held(u)' :
           /\ i \in Held(u)
           /\ block_table'[u][i] = block_table[u][i]
           /\ i * BlockSize <= Settled(u)' => i * BlockSize <= Settled(u)
  PROVE  LabelInv'
<1>1. IndexInv' /\ SharedBlocksFull'
  BY DEF LabelInv, IndexInv, LabelsIndexed, LastBlockOf, SharedBlocksFull, cacheVars
<1>2. BlocksDeterminePrefix' => BlocksDeterminePrefix
  BY DEF BlocksDeterminePrefix, LastBlockOf, cacheVars
<1>3. \A u \in Request : \A i \in Held(u)' : EntryHash(u, i)' = EntryHash(u, i)
  BY DEF EntryHash, cacheVars
<1>4. PICK s : s \notin Request
  BY BlockManagerAssumption
<1>5. \A u \in Request : \A i \in Held(u)' : ~ (u = s /\ i = 0) =>
           /\ i \in Held(u)
           /\ EntryHash(u, i)' = NoHash <=> EntryHash(u, i) = NoHash
           /\ BlocksDeterminePrefix' => EntryHash(u, i)' = EntryHash(u, i)
           /\ i * BlockSize <= Settled(u)' => i * BlockSize <= Settled(u)
  BY <1>3
<1>6. LabelsFollow' /\ LabelsArePrefixes'
  BY <1>2, <1>4, <1>5, EntriesKept DEF LabelInv
<1> QED
  BY <1>1, <1>6 DEF LabelInv

(***************************************************************************)
(* Steps that take a block nobody holds, label it and make it the n-th of  *)
(* the table of s.                                                         *)
(***************************************************************************)
LEMMA FreshLabel ==
  ASSUME TypeInv, PoolInv, LabelInv, UNCHANGED token_ids,
         NEW s \in Request, NEW n, NEW b \in BlockId, NEW h, NEW tokens,
         Label(b, h, tokens),
         ref_count[b] = 0, ref_count'[b] = 1,
         \A c \in BlockId \ {b} : ref_count'[c] > 1 => ref_count[c] > 1,
         \A u \in Request : \A i \in Held(u)' :
           /\ ~ (u = s /\ i = n) => i \in Held(u) /\ block_table'[u][i] = block_table[u][i]
           /\ ~ (u = s /\ i = n) => (i * BlockSize <= Settled(u)' => i * BlockSize <= Settled(u)),
         block_table'[s][n] = b,
         h # NoHash => LastBlockOf(h) = tokens,
         n * BlockSize <= Settled(s)' => h # NoHash,
         n * BlockSize > SeqLen(s) => h = NoHash,
         BlocksDeterminePrefix' /\ h # NoHash => h = PrefixHash(s, n)
  PROVE  LabelInv'
<1>1. /\ block_hash'[b] = h
      /\ \A c \in BlockId \ {b} : block_hash'[c] = block_hash[c]
      /\ BlocksDeterminePrefix' => BlocksDeterminePrefix
  BY LabelEffect, LabelKeepsPremise DEF TypeInv
<1>2. IndexInv'
  BY LabelKeepsIndex DEF TypeInv, LabelInv
<1>3. SharedBlocksFull'
  BY <1>1 DEF LabelInv, SharedBlocksFull
<1>4. EntryHash(s, n)' = h
  BY <1>1 DEF EntryHash
<1>5. ASSUME NEW u \in Request, NEW i \in Held(u)', ~ (u = s /\ i = n)
      PROVE  /\ i \in Held(u)
             /\ EntryHash(u, i)' = EntryHash(u, i)
             /\ i * BlockSize <= Settled(u)' => i * BlockSize <= Settled(u)
  <2>1. /\ i \in Held(u) /\ block_table'[u][i] = block_table[u][i]
        /\ i * BlockSize <= Settled(u)' => i * BlockSize <= Settled(u)
    BY <1>5
  <2>2. block_table[u][i] \in BlockId \ {b}
    <3>1. block_table[u][i] \in BlockId
      BY <2>1, HeldEntry DEF TypeInv
    <3> QED
      BY <2>1, <3>1, NotHeld
  <2> QED
    BY <1>1, <2>1, <2>2 DEF EntryHash
<1>6. LabelsFollow' /\ LabelsArePrefixes'
  BY <1>1, <1>4, <1>5, EntriesKept DEF LabelInv
<1> QED
  BY <1>2, <1>3, <1>6 DEF LabelInv

-----------------------------------------------------------------------------
(* The actions.                                                            *)

LEMMA InitCache ==
  ASSUME Init
  PROVE  CacheInv
<1>1. IndexInv
  BY DEF Init, IndexInv, LabelsIndexed
<1>2. SharedBlocksFull
  BY DEF Init, SharedBlocksFull
<1>3. \A s \in Request : Held(s) = {}
  BY EmptySeq DEF Init, Held
<1> QED
  BY <1>1, <1>2, <1>3 DEF Init, CacheInv, LabelInv, LabelsFollow, LabelsArePrefixes, ChainFollows

LEMMA NewSequenceCache ==
  ASSUME TypeInv, CacheInv, NEW s \in Request, NewSequence(s)
  PROVE  CacheInv'
<1>1. /\ UNCHANGED <<placed, block_table, cpu_block_table, poolVars, cacheVars, callVars>>
      /\ op = "idle" /\ status[s] = "absent"
  BY DEF NewSequence, Idle
<1>2. block_table[s] = <<>>
  BY <1>1, BlockManagerAssumption DEF TypeInv, TypeOK, TablesFollowStatus
<1>3. \A u \in Request \ {s} : token_ids'[u] = token_ids[u]
  BY DEF NewSequence, TypeInv, TypeOK
<1>4. \A u \in Request : Held(u)' = Held(u)
  BY <1>1 DEF Held, callVars
<1>5. Held(s) = {}
  BY <1>2, EmptySeq DEF Held
<1>6. \A u \in Request : \A i \in Held(u) :
         u # s /\ Settled(u)' = Settled(u) /\ SeqLen(u)' = SeqLen(u)
         /\ EntryHash(u, i)' = EntryHash(u, i) /\ PrefixHash(u, i)' = PrefixHash(u, i)
  BY <1>1, <1>3, <1>5 DEF Settled, SeqLen, EntryHash, PrefixHash, cacheVars, callVars
<1>7. LabelsFollow' /\ LabelsArePrefixes'
  <2>1. LabelsFollow'
    BY <1>4, <1>6 DEF CacheInv, LabelInv, LabelsFollow
  <2>2. BlocksDeterminePrefix' => BlocksDeterminePrefix
    BY <1>1 DEF BlocksDeterminePrefix, LastBlockOf, cacheVars
  <2>3. LabelsArePrefixes'
    BY <1>4, <1>6, <2>2 DEF CacheInv, LabelInv, LabelsArePrefixes
  <2> QED
    BY <2>1, <2>3
<1>8. IndexInv' /\ SharedBlocksFull' /\ ChainFollows'
  BY <1>1 DEF CacheInv, LabelInv, IndexInv, LabelsIndexed, LastBlockOf, SharedBlocksFull,
              ChainFollows, cacheVars, poolVars, callVars
<1> QED
  BY <1>7, <1>8 DEF CacheInv, LabelInv

(***************************************************************************)
(* A block with a label is full already: the new token is behind it.       *)
(***************************************************************************)
LEMMA AppendTokenCache ==
  ASSUME TypeInv, CacheInv, NEW s \in Request, NEW t \in Token, append_token(s, t)
  PROVE  CacheInv'
<1>1. /\ UNCHANGED <<block_table, cpu_block_table, poolVars, cacheVars, callVars>>
      /\ op = "idle" /\ placed[s]
  BY DEF append_token, Idle
<1>2. PICK seq \in Seq(Token) : seq = token_ids[s]
  BY DEF TypeInv, TypeOK
<1>3. /\ token_ids'[s] = Append(seq, t) /\ placed'[s] = FALSE
      /\ \A u \in Request \ {s} : token_ids'[u] = token_ids[u] /\ placed'[u] = placed[u]
  BY <1>2 DEF append_token, TypeInv, TypeOK
<1>4. PICK n \in Nat : n = Len(seq)
  BY LenProperties
<1>5. Len(token_ids'[s]) = n + 1
  BY <1>3, <1>4, AppendType
<1>6. \A u \in Request : Held(u)' = Held(u)
  BY <1>1 DEF Held, callVars
<1>7. /\ SeqLen(s) = n /\ SeqLen(s)' = n + 1 /\ Settled(s) = n /\ Settled(s)' = n
  BY <1>1, <1>2, <1>3, <1>4, <1>5 DEF SeqLen, Settled, callVars
<1>8. ASSUME NEW u \in Request, NEW i \in Held(u)
      PROVE  /\ i * BlockSize <= Settled(u)' => EntryHash(u, i)' # NoHash
             /\ i * BlockSize > SeqLen(u)' => EntryHash(u, i)' = NoHash
             /\ BlocksDeterminePrefix' /\ EntryHash(u, i)' # NoHash
                  => EntryHash(u, i)' = PrefixHash(u, i)'
  <2>1. EntryHash(u, i)' = EntryHash(u, i)
    BY <1>1 DEF EntryHash, cacheVars
  <2>2. BlocksDeterminePrefix' => BlocksDeterminePrefix
    BY <1>1 DEF BlocksDeterminePrefix, LastBlockOf, cacheVars
  <2>3. CASE u = s
    <3>1. PICK p \in Nat : p = i * BlockSize
      <4>1. i \in Nat
        BY HeldEntry DEF TypeInv
      <4> QED
        BY <4>1, BlockManagerAssumption
    <3>2. CASE p <= n
      <4>1. SubSeq(Append(seq, t), 1, p) = SubSeq(seq, 1, p)
        BY <1>4, <3>2, PrefixKept
      <4>2. PrefixHash(u, i)' = PrefixHash(u, i)
        BY <1>2, <1>3, <2>3, <3>1, <4>1 DEF PrefixHash
      <4>3. ~ (p > n + 1)
        BY <3>2
      <4> QED
        BY <1>7, <2>1, <2>2, <2>3, <3>1, <3>2, <4>2, <4>3
        DEF CacheInv, LabelInv, LabelsFollow, LabelsArePrefixes
    <3>3. CASE p > n
      <4>1. EntryHash(u, i) = NoHash
        BY <1>7, <2>3, <3>1, <3>3 DEF CacheInv, LabelInv, LabelsFollow
      <4> QED
        BY <1>7, <2>1, <2>3, <3>1, <3>3, <4>1
    <3> QED
      BY <3>2, <3>3
  <2>4. CASE u # s
    <3>1. /\ Settled(u)' = Settled(u) /\ SeqLen(u)' = SeqLen(u)
          /\ PrefixHash(u, i)' = PrefixHash(u, i)
      BY <1>1, <1>3, <2>4 DEF Settled, SeqLen, PrefixHash, callVars
    <3> QED
      BY <2>1, <2>2, <3>1 DEF CacheInv, LabelInv, LabelsFollow, LabelsArePrefixes
  <2> QED
    BY <2>3, <2>4
<1>9. LabelsFollow' /\ LabelsArePrefixes'
  BY <1>6, <1>8 DEF LabelsFollow, LabelsArePrefixes
<1>10. IndexInv' /\ SharedBlocksFull' /\ ChainFollows'
  BY <1>1 DEF CacheInv, LabelInv, IndexInv, LabelsIndexed, LastBlockOf, SharedBlocksFull,
              ChainFollows, cacheVars, poolVars, callVars
<1> QED
  BY <1>9, <1>10 DEF CacheInv, LabelInv

LEMMA RecordComputedCache ==
  ASSUME TypeInv, CacheInv, NEW s \in Request, NEW n \in ChunkEnds, RecordComputed(s, n)
  PROVE  CacheInv'
<1>1. UNCHANGED <<token_ids, placed, block_table, cpu_block_table, ref_count, cacheVars, callVars>>
  BY DEF RecordComputed, seqVars, poolVars
<1>2. \A u \in Request : Held(u)' = Held(u) /\ Settled(u)' = Settled(u)
  BY <1>1 DEF Held, Settled, SeqLen, callVars
<1>3. LabelInv'
  BY <1>1, <1>2, QuietLabels DEF CacheInv
<1>4. ChainFollows'
  BY <1>1 DEF CacheInv, ChainFollows, PrefixHash, callVars
<1> QED
  BY <1>3, <1>4 DEF CacheInv

(***************************************************************************)
(* A method that begins finds the table of its sequence as it was left;    *)
(* allocate and swap_in start with an empty table and the empty chain.     *)
(***************************************************************************)
LEMMA BeginCache ==
  ASSUME TypeInv, CacheInv, NEW s \in Request,
         BeginAllocate(s) \/ BeginFinish(s) \/ Preempt(s) \/ BeginSwapIn(s)
  PROVE  CacheInv'
<1>1. /\ UNCHANGED <<token_ids, placed, block_table, cpu_block_table, ref_count, cacheVars>>
      /\ op = "idle"
      /\ cur' = s /\ chain' = NoHash
  BY DEF BeginAllocate, BeginFinish, Preempt, BeginSwapIn, Idle, Call, seqVars, poolVars
<1>2. op' \in {"allocate", "swap_in"} => block_table[s] = <<>>
  <2>1. cur # s
    BY <1>1, BlockManagerAssumption DEF TypeInv, TypeOK
  <2>2. op' \in {"allocate", "swap_in"} => status[s] \in {"waiting", "swapped"}
    BY DEF BeginAllocate, BeginFinish, Preempt, BeginSwapIn, Call
  <2> QED
    BY <2>1, <2>2 DEF TypeInv, TablesFollowStatus
<1>3. ASSUME NEW u \in Request, NEW i \in Held(u)'
      PROVE  i \in Held(u) /\ (i * BlockSize <= Settled(u)' => i * BlockSize <= Settled(u))
  <2>1. i \in Held(u) /\ i \in DOMAIN block_table[u]
    BY <1>1 DEF Held
  <2>2. ~ (op' = "allocate" /\ cur' = u)
    BY <1>1, <1>2, <2>1, EmptySeq
  <2>3. Settled(u)' = Settled(u)
    BY <1>1, <2>2 DEF Settled, SeqLen
  <2> QED
    BY <2>1, <2>3
<1>4. LabelInv'
  BY <1>1, <1>3, QuietLabels DEF CacheInv
<1>5. ChainFollows'
  BY <1>1, <1>2, EmptySeq, EmptyPrefix DEF ChainFollows, PrefixHash
<1> QED
  BY <1>4, <1>5 DEF CacheInv

(***************************************************************************)
(* Front drops the last element and nothing else.                          *)
(***************************************************************************)
LEMMA FrontElements ==
  ASSUME NEW S, NEW seq \in Seq(S), seq # <<>>
  PROVE  /\ DOMAIN Front(seq) = 1 .. Len(seq) - 1
         /\ \A j \in 1 .. Len(seq) - 1 : Front(seq)[j] = seq[j]
<1>1. PICK n \in Nat \ {0} : n = Len(seq)
  BY EndsType
<1>2. Front(seq) = SubSeq(seq, 1, n - 1)
  BY <1>1 DEF Front
<1>3. \A j \in 1 .. n - 1 : seq[j] \in S
  BY <1>1, ElementOfSeq
<1>4. n - 1 \in Int /\ (n - 1) - 1 + 1 = n - 1
  BY <1>1
<1>5. /\ SubSeq(seq, 1, n - 1) \in Seq(S)
      /\ Len(SubSeq(seq, 1, n - 1)) = IF 1 <= n - 1 THEN n - 1 ELSE 0
      /\ \A j \in 1 .. n - 1 : SubSeq(seq, 1, n - 1)[j] = seq[(1 + j) - 1]
  BY <1>3, <1>4, SubSeqProperties
<1>6. \A j \in 1 .. n - 1 : (1 + j) - 1 = j
  BY <1>1
<1>7. Len(Front(seq)) = n - 1
  BY <1>1, EndsType
<1> QED
  BY <1>1, <1>2, <1>5, <1>6, <1>7, LenProperties

(***************************************************************************)
(* Blocks that are given back keep their labels.                           *)
(***************************************************************************)
LEMMA ReleaseCounts ==
  ASSUME TypeOK, NEW b \in BlockId, ReleaseBlock(b)
  PROVE  \A c \in BlockId : ref_count'[c] > 1 => ref_count[c] > 1
<1>1. ref_count \in [BlockId -> Int]
  BY DEF TypeOK
<1>2. \A c \in BlockId : ref_count'[c] = IF c = b THEN ref_count[c] - 1 ELSE ref_count[c]
  BY <1>1 DEF ReleaseBlock
<1>3. \A c \in BlockId : ref_count[c] \in Int
  BY <1>1
<1> QED
  BY <1>2, <1>3

LEMMA DeallocateStepCache ==
  ASSUME TypeInv, CacheInv, DeallocateStep
  PROVE  CacheInv'
<1>1. PICK s \in Request : s = cur
  BY BlockManagerAssumption DEF TypeInv, TypeOK, DeallocateStep
<1>2. /\ UNCHANGED <<token_ids, placed, cacheVars>>
      /\ op = "deallocate" /\ op' \in {"deallocate", "idle"}
      /\ block_table' = [block_table EXCEPT ![s] = Front(block_table[s])]
      /\ block_table[s] \in Seq(BlockId) /\ block_table[s] # <<>>
  BY <1>1 DEF DeallocateStep, seqVars, callVars, Return, Call, TypeInv, TypeOK, MethodHasRoom
<1>3. Last(block_table[s]) \in BlockId /\ ReleaseBlock(Last(block_table[s]))
  BY <1>1, <1>2, EndsType DEF DeallocateStep
<1>4. \A c \in BlockId : ref_count'[c] > 1 => ref_count[c] > 1
  BY <1>3, ReleaseCounts DEF TypeInv
<1>5. \A u \in Request : Settled(u)' = Settled(u)
  BY <1>2 DEF Settled, SeqLen
<1>6. ASSUME NEW u \in Request, NEW i \in Held(u)'
      PROVE  i \in Held(u) /\ block_table'[u][i] = block_table[u][i]
  <2>1. i \in DOMAIN block_table'[u] /\ Held(u) = DOMAIN block_table[u]
    BY <1>2, HeldOutsideSwapOut DEF Held
  <2>2. CASE u # s
    BY <1>2, <2>1, <2>2 DEF TypeInv, TypeOK
  <2>3. CASE u = s
    <3>1. block_table'[s] = Front(block_table[s])
      BY <1>2 DEF TypeInv, TypeOK
    <3>2. PICK n \in Nat : n = Len(block_table[s])
      BY <1>2, LenProperties
    <3>3. /\ DOMAIN Front(block_table[s]) = 1 .. n - 1
          /\ \A j \in 1 .. n - 1 : Front(block_table[s])[j] = block_table[s][j]
          /\ DOMAIN block_table[s] = 1 .. n
      BY <1>2, <3>2, LenProperties, EndsType, FrontElements
    <3> QED
      BY <2>1, <2>3, <3>1, <3>3
  <2> QED
    BY <2>2, <2>3
<1>7. LabelInv'
  BY <1>2, <1>4, <1>5, <1>6, QuietLabels DEF CacheInv
<1> QED
  BY <1>2, <1>7 DEF CacheInv, ChainFollows

LEMMA SwapOutStepCache ==
  ASSUME TypeInv, TypeInv', CacheInv, SwapOutStep
  PROVE  CacheInv'
<1>1. PICK s \in Request : s = cur
  BY BlockManagerAssumption DEF TypeInv, TypeOK, SwapOutStep
<1>2. /\ UNCHANGED <<token_ids, placed, cacheVars>>
      /\ op = "swap_out"
      /\ \/ UNCHANGED <<block_table, callVars>>
         \/ op' = "idle" /\ block_table' = [block_table EXCEPT ![s] = <<>>]
      /\ cpu_block_table' =
           [cpu_block_table EXCEPT ![s] = Append(cpu_block_table[s], Head(cpu_free_block_ids))]
  BY <1>1 DEF SwapOutStep, Return, Call
<1>3. \A c \in BlockId : ref_count'[c] > 1 => ref_count[c] > 1
  BY <1>1, SwapOutReference, ReleaseCounts DEF TypeInv
<1>4. \A u \in Request : Settled(u)' = Settled(u)
  BY <1>2 DEF Settled, SeqLen, callVars
<1>5. ASSUME NEW u \in Request, NEW i \in Held(u)'
      PROVE  i \in Held(u) /\ block_table'[u][i] = block_table[u][i]
  <2>1. CASE UNCHANGED <<block_table, callVars>>
    <3>1. i \in DOMAIN block_table[u]
      BY <2>1 DEF Held
    <3>2. CASE u = s
      <4>1. i > Len(cpu_block_table'[s])
        BY <1>1, <1>2, <2>1, <3>2 DEF Held, callVars
      <4>2. Len(cpu_block_table'[s]) = Len(cpu_block_table[s]) + 1
        <5>1. cpu_block_table'[s] = Append(cpu_block_table[s], Head(cpu_free_block_ids))
          BY <1>2 DEF TypeInv, TypeOK
        <5> QED
          BY <5>1 DEF TypeInv, TypeOK
      <4>3. i \in Nat /\ Len(cpu_block_table[s]) \in Nat
        <5>1. block_table[u] \in Seq(BlockId) /\ cpu_block_table[s] \in Seq(CpuBlockId)
          BY DEF TypeInv, TypeOK
        <5> QED
          BY <3>1, <5>1, LenProperties
      <4> QED
        BY <1>1, <2>1, <3>1, <3>2, <4>1, <4>2, <4>3 DEF Held
    <3>3. CASE u # s
      BY <1>1, <2>1, <3>1, <3>3 DEF Held
    <3> QED
      BY <3>2, <3>3
  <2>2. CASE op' = "idle" /\ block_table' = [block_table EXCEPT ![s] = <<>>]
    <3>1. i \in DOMAIN block_table'[u]
      BY DEF Held
    <3>2. block_table'[s] = <<>> /\ \A v \in Request \ {s} : block_table'[v] = block_table[v]
      BY <2>2 DEF TypeInv, TypeOK
    <3>3. u # s
      BY <3>1, <3>2, EmptySeq
    <3> QED
      BY <1>1, <3>1, <3>2, <3>3 DEF Held
  <2> QED
    BY <1>2, <2>1, <2>2
<1>6. LabelInv'
  BY <1>2, <1>3, <1>4, <1>5, QuietLabels DEF CacheInv
<1>7. op' \in {"swap_out", "idle"}
  BY <1>2 DEF callVars
<1> QED
  BY <1>6, <1>7 DEF CacheInv, ChainFollows

(***************************************************************************)
(* The hash that allocate and swap_in compute for the next block is the    *)
(* chain of the sequence up to that block, if the block is full.           *)
(***************************************************************************)
LEMMA NextLabel ==
  ASSUME TypeOK, ChainFollows, op \in {"allocate", "swap_in"},
         NEW n, n = Len(block_table[cur]), n * BlockSize < SeqLen(cur)
  PROVE  /\ NextHash \in Seq(Token) /\ NextTokens \in Seq(Token)
         /\ NextHash # NoHash <=> (n + 1) * BlockSize <= SeqLen(cur)
         /\ NextHash # NoHash => /\ NextHash = PrefixHash(cur, n + 1)
                                 /\ LastBlockOf(NextHash) = NextTokens
                                 /\ Len(NextTokens) = BlockSize
<1>1. cur \in Request /\ NextTokens \in Seq(Token) /\ NextHash \in Seq(Token)
  BY NextBlockType
<1>2. n \in Nat
  <2>1. block_table[cur] \in Seq(BlockId)
    BY <1>1 DEF TypeOK
  <2> QED
    BY <2>1, LenProperties
<1>3. NextTokens = block(cur, n + 1) /\ chain = PrefixHash(cur, n)
  BY DEF NextTokens, ChainFollows
<1>4. Len(NextTokens) = BlockSize <=> (n + 1) * BlockSize <= SeqLen(cur)
  BY <1>1, <1>2, <1>3, BlockBehind
<1>5. CASE Len(NextTokens) = BlockSize
  <2>1. NextHash = compute_hash(NextTokens, chain)
    BY <1>5 DEF NextHash
  <2>2. chain \in Seq(Token)
    BY DEF TypeOK
  <2>3. LastBlockOf(NextHash) = NextTokens /\ NextHash # NoHash
    BY <1>1, <1>5, <2>1, <2>2, ChainEnd
  <2>4. NextHash = PrefixHash(cur, n + 1)
    BY <1>1, <1>2, <1>3, <1>4, <1>5, <2>1, BlockBehind DEF compute_hash
  <2> QED
    BY <1>1, <1>4, <1>5, <2>3, <2>4
<1>6. CASE Len(NextTokens) # BlockSize
  <2>1. NextHash = NoHash
    BY <1>6 DEF NextHash
  <2> QED
    BY <1>1, <1>4, <1>6, <2>1
<1> QED
  BY <1>5, <1>6

(***************************************************************************)
(* A page table that grows keeps its entries.                              *)
(***************************************************************************)
LEMMA GrownTable ==
  ASSUME TypeOK, NEW s \in Request, NEW b \in BlockId,
         block_table' = [block_table EXCEPT ![s] = Append(block_table[s], b)]
  PROVE  /\ block_table'[s][Len(block_table[s]) + 1] = b
         /\ Len(block_table'[s]) = Len(block_table[s]) + 1
<1>1. block_table[s] \in Seq(BlockId)
  BY DEF TypeOK
<1>2. block_table'[s] = Append(block_table[s], b)
  BY DEF TypeOK
<1> QED
  BY <1>1, <1>2, AppendProperties

LEMMA GrownHeld ==
  ASSUME TypeOK, op # "swap_out", op' # "swap_out",
         NEW s \in Request, NEW b \in BlockId,
         block_table' = [block_table EXCEPT ![s] = Append(block_table[s], b)]
  PROVE  \A u \in Request : \A i \in Held(u)' : ~ (u = s /\ i = Len(block_table[s]) + 1) =>
           i \in Held(u) /\ block_table'[u][i] = block_table[u][i]
<1> DEFINE n == Len(block_table[s])
<1>1. block_table[s] \in Seq(BlockId)
  BY DEF TypeOK
<1>2. n \in Nat /\ DOMAIN block_table[s] = 1 .. n
  BY <1>1, LenProperties
<1>3. /\ block_table'[s] = Append(block_table[s], b)
      /\ \A u \in Request \ {s} : block_table'[u] = block_table[u]
  BY DEF TypeOK
<1>4. /\ DOMAIN block_table'[s] = 1 .. n + 1
      /\ Len(block_table'[s]) = n + 1
      /\ block_table'[s][n + 1] = b
      /\ \A i \in 1 .. n : block_table'[s][i] = block_table[s][i]
  BY <1>1, <1>2, <1>3, AppendProperties, LenProperties
<1>5. \A u \in Request : Held(u) = DOMAIN block_table[u] /\ Held(u)' = DOMAIN block_table'[u]
  BY HeldOutsideSwapOut
<1>6. ASSUME NEW u \in Request, NEW i \in Held(u)', ~ (u = s /\ i = n + 1)
      PROVE  i \in Held(u) /\ block_table'[u][i] = block_table[u][i]
  <2>1. CASE u = s
    BY <1>2, <1>4, <1>5, <1>6, <2>1
  <2>2. CASE u # s
    BY <1>3, <1>5, <2>2
  <2> QED
    BY <2>1, <2>2
<1> QED
  BY <1>2, <1>4, <1>6

LEMMA SettledWithinLength ==
  ASSUME TypeOK, NEW s \in Request
  PROVE  /\ SeqLen(s) \in Nat
         /\ Settled(s) \in Int /\ Settled(s) <= SeqLen(s)
         /\ Slotted(s) \in Int /\ Slotted(s) <= SeqLen(s)
<1>1. token_ids[s] \in Seq(Token)
  BY DEF TypeOK
<1>2. SeqLen(s) \in Nat
  BY <1>1, LenProperties DEF SeqLen
<1> QED
  BY <1>2 DEF Settled, Slotted

(***************************************************************************)
(* swap_in labels the blocks it takes like those swap_out gave back.       *)
(***************************************************************************)
LEMMA SwapInStepCache ==
  ASSUME TypeInv, PoolInv, FitInv, CacheInv, SwapInStep
  PROVE  CacheInv'
<1>1. PICK s \in Request : s = cur
  BY BlockManagerAssumption DEF TypeInv, TypeOK, SwapInStep
<1>2. PICK n : n = Len(block_table[s])
  OBVIOUS
<1>3. PICK m : m = Len(cpu_block_table[s])
  OBVIOUS
<1>4. PICK b : b = Head(free_block_ids)
  OBVIOUS
<1>5. /\ TypeOK /\ op = "swap_in" /\ op' \in {"swap_in", "idle"} /\ status[s] = "swapped"
      /\ UNCHANGED <<token_ids, placed>>
      /\ ref_count' = [ref_count EXCEPT ![b] = 1]
      /\ block_table' = [block_table EXCEPT ![s] = Append(block_table[s], b)]
      /\ Label(b, NextHash, NextTokens)
  BY <1>1, <1>4 DEF SwapInStep, Return, Call, TypeInv, MethodHasRoom
<1>6. n \in Nat /\ m \in Nat /\ n < m /\ free_block_ids \in Seq(BlockId)
      /\ m <= n + Len(free_block_ids)
  <2>1. block_table[s] \in Seq(BlockId) /\ cpu_block_table[s] \in Seq(CpuBlockId)
    BY DEF TypeInv, TypeOK
  <2> QED
    BY <1>1, <1>2, <1>3, <1>5, <2>1, LenProperties DEF TypeInv, TypeOK, MethodHasRoom
<1>7. free_block_ids # <<>>
  BY <1>6, EmptySeq
<1>8. b \in BlockId /\ ref_count[b] = 0
  <2>1. b \in BlockId /\ b \in Range(free_block_ids)
    BY <1>4, <1>6, <1>7, EndsType, TailRange DEF PoolInv, PoolPartition
  <2> QED
    BY <1>5, <2>1, FreeHasNoCount
<1>9. m = PagesFor(Slotted(s))
  BY <1>3, <1>5 DEF FitInv, FitsOnCpu
<1>10. SeqLen(s) \in Nat /\ Slotted(s) \in Nat /\ Slotted(s) <= SeqLen(s)
       /\ Settled(s) \in Int /\ Settled(s) <= SeqLen(s)
  <2>1. token_ids[s] # <<>>
    BY <1>5 DEF TypeInv, TablesFollowStatus
  <2>2. SeqLen(s) > 0
    BY <2>1, EmptySeq DEF SeqLen, TypeInv, TypeOK
  <2>3. Slotted(s) >= 0
    BY <1>5, <2>2, SettledWithinLength DEF Slotted
  <2> QED
    BY <1>5, <2>3, SettledWithinLength
<1>11. /\ \A i \in Nat : i < m <=> i * BlockSize < Slotted(s)
       /\ \A i \in Nat : i * BlockSize \in Nat
  <2>1. \A i \in Nat : i < m <=> i * BlockSize < Slotted(s)
    BY <1>9, <1>10, PagesReach
  <2>2. \A i \in Nat : i * BlockSize \in Nat
    BY BlockManagerAssumption
  <2> QED
    BY <2>1, <2>2
<1>12. n * BlockSize < SeqLen(s)
  BY <1>6, <1>10, <1>11
<1>13. /\ NextHash \in Seq(Token) /\ NextTokens \in Seq(Token)
       /\ NextHash # NoHash <=> (n + 1) * BlockSize <= SeqLen(s)
       /\ NextHash # NoHash => /\ NextHash = PrefixHash(s, n + 1)
                               /\ LastBlockOf(NextHash) = NextTokens
  BY <1>1, <1>2, <1>5, <1>12, NextLabel DEF CacheInv
<1>14. /\ block_table'[s][n + 1] = b
       /\ Len(block_table'[s]) = n + 1
       /\ \A u \in Request : \A i \in Held(u)' : ~ (u = s /\ i = n + 1) =>
            i \in Held(u) /\ block_table'[u][i] = block_table[u][i]
  <2>1. TypeOK /\ op # "swap_out" /\ op' # "swap_out"
    BY <1>5
  <2>2. /\ b \in BlockId
        /\ block_table' = [block_table EXCEPT ![s] = Append(block_table[s], b)]
    BY <1>5, <1>8
  <2>3. block_table'[s][Len(block_table[s]) + 1] = b
    BY <2>1, <2>2, GrownTable
  <2>4. Len(block_table'[s]) = Len(block_table[s]) + 1
    BY <2>1, <2>2, GrownTable
  <2>5. \A u \in Request : \A i \in Held(u)' : ~ (u = s /\ i = Len(block_table[s]) + 1) =>
          i \in Held(u) /\ block_table'[u][i] = block_table[u][i]
    BY <2>1, <2>2, GrownHeld
  <2> QED
    BY <1>2, <2>3, <2>4, <2>5
<1>15. \A u \in Request : Settled(u)' = Settled(u)
  BY <1>5 DEF Settled, SeqLen
<1>16. /\ ref_count'[b] = 1
       /\ \A c \in BlockId \ {b} : ref_count'[c] = ref_count[c]
  BY <1>5, <1>8 DEF TypeOK
<1>17. LabelInv'
  <2>1. (n + 1) * BlockSize <= Settled(s)' => NextHash # NoHash
    BY <1>6, <1>10, <1>11, <1>13, <1>15
  <2>2. (n + 1) * BlockSize > SeqLen(s) => NextHash = NoHash
    BY <1>6, <1>10, <1>11, <1>13
  <2>3. PICK k : k = n + 1
    OBVIOUS
  <2>4. \A u \in Request : \A i \in Held(u)' :
          /\ ~ (u = s /\ i = k) => i \in Held(u) /\ block_table'[u][i] = block_table[u][i]
          /\ ~ (u = s /\ i = k) => (i * BlockSize <= Settled(u)' => i * BlockSize <= Settled(u))
    BY <1>14, <1>15, <2>3
  <2>5. PICK h, tokens : h = NextHash /\ tokens = NextTokens
    OBVIOUS
  <2>6. /\ Label(b, h, tokens)
        /\ h # NoHash => LastBlockOf(h) = tokens
        /\ k * BlockSize <= Settled(s)' => h # NoHash
        /\ k * BlockSize > SeqLen(s) => h = NoHash
        /\ BlocksDeterminePrefix' /\ h # NoHash => h = PrefixHash(s, k)
    BY <1>5, <1>13, <2>1, <2>2, <2>3, <2>5
  <2>7. block_table'[s][k] = b
    BY <1>14, <2>3
  <2>8. \A c \in BlockId \ {b} : ref_count'[c] > 1 => ref_count[c] > 1
    BY <1>16
  <2>9. UNCHANGED token_ids
    BY <1>5
  <2>10. LabelInv
    BY DEF CacheInv
  <2> QED
    BY <1>8, <1>16, <2>4, <2>6, <2>7, <2>8, <2>9, <2>10, FreshLabel
<1>18. ChainFollows'
  <2>1. CASE op' = "idle"
    BY <2>1 DEF ChainFollows
  <2>2. CASE op' = "swap_in"
    <3>1. n + 1 < m /\ chain' = NextHash /\ cur' = s
      BY <1>1, <1>2, <1>3, <2>2 DEF SwapInStep, Return, Call
    <3>2. (n + 1) * BlockSize <= SeqLen(s)
      BY <1>6, <1>10, <1>11, <3>1
    <3>3. chain' = PrefixHash(s, n + 1)
      BY <1>13, <3>1, <3>2
    <3> QED
      BY <1>5, <1>14, <3>1, <3>3 DEF ChainFollows, PrefixHash
  <2> QED
    BY <1>5, <2>1, <2>2
<1> QED
  BY <1>17, <1>18 DEF CacheInv

(***************************************************************************)
(* What the iterations of allocate have in common: the table gains a page, *)
(* and the block in it is labelled with the chain so far.                  *)
(***************************************************************************)
LEMMA AllocateIteration ==
  ASSUME TypeInv, CacheInv, op = "allocate", NEW s \in Request, s = cur,
         NEW b \in BlockId, AddToTable(b)
  PROVE  LET n == Len(block_table[s])
         IN /\ UNCHANGED token_ids
            /\ Label(b, NextHash, NextTokens)
            /\ NextHash # NoHash => /\ NextHash = PrefixHash(s, n + 1)
                                    /\ LastBlockOf(NextHash) = NextTokens
                                    /\ NextTokens # <<>>
            /\ (n + 1) * BlockSize <= Settled(s)' => NextHash # NoHash
            /\ (n + 1) * BlockSize > SeqLen(s) => NextHash = NoHash
            /\ block_table'[s][n + 1] = b
            /\ \A u \in Request : \A i \in Held(u)' : ~ (u = s /\ i = n + 1) =>
                 i \in Held(u) /\ block_table'[u][i] = block_table[u][i]
            /\ \A u \in Request : Settled(u)' = Settled(u)
            /\ ChainFollows'
<1>1. PICK n : n = Len(block_table[s])
  OBVIOUS
<1>2. /\ TypeOK /\ UNCHANGED token_ids
      /\ block_table' = [block_table EXCEPT ![s] = Append(block_table[s], b)]
      /\ Label(b, NextHash, NextTokens)
      /\ \/ /\ n + 1 < num_blocks(s)
            /\ chain' = NextHash /\ UNCHANGED <<op, cur, placed>>
         \/ /\ n + 1 = num_blocks(s)
            /\ op' = "idle" /\ placed' = [placed EXCEPT ![s] = TRUE]
  BY <1>1 DEF AddToTable, Return, Call, TypeInv
<1>3. SeqLen(s) \in Nat /\ num_blocks(s) = PagesFor(SeqLen(s))
  BY <1>2, SettledWithinLength DEF num_blocks, PagesFor
<1>4. n \in Nat /\ n < num_blocks(s)
  <2>1. block_table[s] \in Seq(BlockId)
    BY DEF TypeInv, TypeOK
  <2> QED
    BY <1>1, <2>1, LenProperties DEF TypeInv, MethodHasRoom
<1>5. /\ \A i \in Nat : i < num_blocks(s) <=> i * BlockSize < SeqLen(s)
      /\ \A i \in Nat : i * BlockSize \in Nat
  <2>1. \A i \in Nat : i < num_blocks(s) <=> i * BlockSize < SeqLen(s)
    BY <1>3, PagesReach
  <2>2. \A i \in Nat : i * BlockSize \in Nat
    BY BlockManagerAssumption
  <2> QED
    BY <2>1, <2>2
<1>6. n * BlockSize < SeqLen(s)
  BY <1>4, <1>5
<1>7. /\ NextHash # NoHash <=> (n + 1) * BlockSize <= SeqLen(s)
      /\ NextHash # NoHash => /\ NextHash = PrefixHash(s, n + 1)
                              /\ LastBlockOf(NextHash) = NextTokens
                              /\ Len(NextTokens) = BlockSize
  BY <1>1, <1>2, <1>6, NextLabel DEF CacheInv
<1>8. NextHash # NoHash => NextTokens # <<>>
  BY <1>7, EmptySeq, BlockManagerAssumption
<1>9. TypeOK /\ op # "swap_out" /\ op' # "swap_out"
  BY <1>2
<1>10. block_table' = [block_table EXCEPT ![s] = Append(block_table[s], b)]
  BY <1>2
<1>11. block_table'[s][Len(block_table[s]) + 1] = b
  BY <1>9, <1>10, GrownTable
<1>12. Len(block_table'[s]) = Len(block_table[s]) + 1
  BY <1>9, <1>10, GrownTable
<1>13. \A u \in Request : \A i \in Held(u)' : ~ (u = s /\ i = Len(block_table[s]) + 1) =>
         i \in Held(u) /\ block_table'[u][i] = block_table[u][i]
  BY <1>9, <1>10, GrownHeld
<1>14. ASSUME NEW u \in Request PROVE Settled(u)' = Settled(u)
  <2>1. CASE u = s
    BY <1>2, <2>1 DEF Settled, SeqLen, TypeOK
  <2>2. CASE u # s
    BY <1>2, <2>2 DEF Settled, SeqLen, TypeOK
  <2> QED
    BY <2>1, <2>2
<1>15. Settled(s) = SeqLen(s)
  BY DEF Settled
<1>16. /\ (n + 1) * BlockSize <= Settled(s)' => NextHash # NoHash
       /\ (n + 1) * BlockSize > SeqLen(s) => NextHash = NoHash
  <2>1. Settled(s)' = SeqLen(s)
    BY <1>14, <1>15
  <2>2. (n + 1) * BlockSize \in Nat
    BY <1>4, <1>5
  <2> QED
    BY <1>3, <1>7, <2>1, <2>2
<1>17. ChainFollows'
  <2>1. CASE op' = "idle"
    BY <2>1 DEF ChainFollows
  <2>2. CASE /\ n + 1 < num_blocks(s)
             /\ chain' = NextHash /\ UNCHANGED <<op, cur, placed>>
    <3>1. (n + 1) * BlockSize <= SeqLen(s)
      BY <1>3, <1>4, <1>5, <2>2
    <3>2. chain' = PrefixHash(s, n + 1)
      BY <1>7, <2>2, <3>1
    <3>3. cur' = s /\ Len(block_table'[s]) = n + 1
      BY <1>1, <1>12, <2>2
    <3> QED
      BY <1>2, <3>2, <3>3 DEF ChainFollows, PrefixHash
  <2> QED
    BY <1>2, <2>1, <2>2
<1> QED
  BY <1>1, <1>2, <1>7, <1>8, <1>11, <1>13, <1>14, <1>16, <1>17

(***************************************************************************)
(* A miss, and a hit on a free block: a block that nobody holds is taken.  *)
(***************************************************************************)
LEMMA AllocateFreshCache ==
  ASSUME TypeInv, PoolInv, CacheInv, op = "allocate", NEW b \in BlockId,
         b \notin used_block_ids, allocate_block(b), AddToTable(b)
  PROVE  CacheInv'
<1>1. PICK s \in Request : s = cur
  BY BlockManagerAssumption DEF TypeInv, TypeOK
<1>2. PICK k : k = Len(block_table[s]) + 1
  OBVIOUS
<1>3. PICK h, tokens : h = NextHash /\ tokens = NextTokens
  OBVIOUS
<1>4. /\ UNCHANGED token_ids
      /\ Label(b, h, tokens)
      /\ h # NoHash => h = PrefixHash(s, k)
      /\ h # NoHash => LastBlockOf(h) = tokens
      /\ k * BlockSize <= Settled(s)' => h # NoHash
      /\ k * BlockSize > SeqLen(s) => h = NoHash
      /\ block_table'[s][k] = b
      /\ \A u \in Request : \A i \in Held(u)' : ~ (u = s /\ i = k) =>
           i \in Held(u) /\ block_table'[u][i] = block_table[u][i]
      /\ \A u \in Request : Settled(u)' = Settled(u)
      /\ ChainFollows'
  BY <1>1, <1>2, <1>3, AllocateIteration
<1>5. ref_count[b] = 0
  BY FreeHasNoCount DEF TypeInv
<1>6. ref_count'[b] = 1 /\ \A c \in BlockId \ {b} : ref_count'[c] > 1 => ref_count[c] > 1
  BY DEF allocate_block, TypeInv, TypeOK
<1>7. \A u \in Request : \A i \in Held(u)' :
        /\ ~ (u = s /\ i = k) => i \in Held(u) /\ block_table'[u][i] = block_table[u][i]
        /\ ~ (u = s /\ i = k) => (i * BlockSize <= Settled(u)' => i * BlockSize <= Settled(u))
  BY <1>4
<1>8. LabelInv
  BY DEF CacheInv
<1>9. LabelInv'
  BY <1>4, <1>5, <1>6, <1>7, <1>8, FreshLabel
<1> QED
  BY <1>4, <1>9 DEF CacheInv

(***************************************************************************)
(* A hit on a block in use writes the label again.  Its content ends both  *)
(* the old chain and the new one, so under unique contents it is the same  *)
(* label; in any case the block stays labelled.                            *)
(***************************************************************************)
LEMMA AllocateSharedCache ==
  ASSUME TypeInv, PoolInv, CacheInv, AllocateShared
  PROVE  /\ CacheInv'
         /\ BlocksDeterminePrefix' => block_hash' = block_hash
<1>1. PICK s \in Request : s = cur
  BY BlockManagerAssumption DEF TypeInv, TypeOK, AllocateShared
<1>2. PICK b : b = hash_to_block_id[NextHash]
  OBVIOUS
<1>3. PICK k : k = Len(block_table[s]) + 1
  OBVIOUS
<1>4. PICK h, tokens : h = NextHash /\ tokens = NextTokens
  OBVIOUS
<1>5. /\ TypeOK /\ op = "allocate"
      /\ h \in DOMAIN hash_to_block_id
      /\ block_token_ids[b] = tokens
      /\ ShareBlock(b) /\ AddToTable(b)
  BY <1>2, <1>4 DEF AllocateShared, CacheHit, TypeInv
<1>6. b \in BlockId
  BY <1>2, <1>4, <1>5 DEF TypeOK
<1>7. /\ UNCHANGED token_ids
      /\ Label(b, h, tokens)
      /\ h # NoHash => /\ h = PrefixHash(s, k)
                       /\ LastBlockOf(h) = tokens
                       /\ tokens # <<>>
      /\ k * BlockSize <= Settled(s)' => h # NoHash
      /\ k * BlockSize > SeqLen(s) => h = NoHash
      /\ block_table'[s][k] = b
      /\ \A u \in Request : \A i \in Held(u)' : ~ (u = s /\ i = k) =>
           i \in Held(u) /\ block_table'[u][i] = block_table[u][i]
      /\ \A u \in Request : Settled(u)' = Settled(u)
      /\ ChainFollows'
  BY <1>1, <1>3, <1>4, <1>5, <1>6, AllocateIteration
<1>8. h # NoHash
  BY <1>5 DEF CacheInv, LabelInv, IndexInv
<1>9. /\ block_hash[b] # NoHash
      /\ block_hash[b] \in DOMAIN hash_to_block_id
      /\ LastBlockOf(block_hash[b]) = tokens
  BY <1>5, <1>6, <1>7, <1>8 DEF CacheInv, LabelInv, IndexInv, LabelsIndexed
<1>10. BlocksDeterminePrefix => block_hash[b] = h
  BY <1>5, <1>7, <1>8, <1>9 DEF BlocksDeterminePrefix
<1>11. /\ block_hash'[b] = h
       /\ \A c \in BlockId \ {b} : block_hash'[c] = block_hash[c]
       /\ BlocksDeterminePrefix' => BlocksDeterminePrefix
  BY <1>5, <1>6, <1>7, LabelEffect, LabelKeepsPremise
<1>12. IndexInv'
  BY <1>5, <1>6, <1>7, LabelKeepsIndex DEF CacheInv, LabelInv
<1>13. SharedBlocksFull'
  <2>1. \A c \in BlockId \ {b} : ref_count'[c] = ref_count[c]
    BY <1>5, <1>6 DEF ShareBlock, TypeOK
  <2> QED
    BY <1>8, <1>11, <2>1 DEF CacheInv, LabelInv, SharedBlocksFull
<1>14. EntryHash(s, k)' = h
  BY <1>7, <1>11 DEF EntryHash
<1>15. ASSUME NEW u \in Request, NEW i \in Held(u)', ~ (u = s /\ i = k)
       PROVE  /\ i \in Held(u)
              /\ EntryHash(u, i)' = NoHash <=> EntryHash(u, i) = NoHash
              /\ BlocksDeterminePrefix' => EntryHash(u, i)' = EntryHash(u, i)
              /\ i * BlockSize <= Settled(u)' => i * BlockSize <= Settled(u)
  <2>1. i \in Held(u) /\ block_table'[u][i] = block_table[u][i] /\ Settled(u)' = Settled(u)
    BY <1>7, <1>15
  <2>2. block_table[u][i] \in BlockId
    BY <1>5, <2>1, HeldEntry
  <2> QED
    BY <1>8, <1>9, <1>10, <1>11, <2>1, <2>2 DEF EntryHash
<1>16. LabelsFollow' /\ LabelsArePrefixes'
  BY <1>7, <1>8, <1>11, <1>14, <1>15, EntriesKept DEF CacheInv, LabelInv
<1>17. BlocksDeterminePrefix' => block_hash' = block_hash
  <2>1. block_hash' = [block_hash EXCEPT ![b] = h] /\ block_hash \in [BlockId -> Seq(Token)]
    BY <1>5, <1>7 DEF Label, TypeOK
  <2> QED
    BY <1>6, <1>10, <1>11, <2>1
<1> QED
  BY <1>7, <1>12, <1>13, <1>16, <1>17 DEF CacheInv, LabelInv

LEMMA AllocateStepCache ==
  ASSUME TypeInv, PoolInv, CacheInv, AllocateStep
  PROVE  CacheInv'
<1>1. TypeOK /\ op = "allocate" /\ cur \in Request /\ free_block_ids \in Seq(BlockId)
  BY BlockManagerAssumption
  DEF TypeInv, TypeOK, AllocateStep, AllocateMiss, AllocateShared, AllocateRevived
<1>2. CASE AllocateMiss
  <2>1. block_table[cur] \in Seq(BlockId)
    BY <1>1 DEF TypeOK
  <2>2. num_blocks(cur) \in Nat /\ Len(block_table[cur]) \in Nat /\ Len(free_block_ids) \in Nat
    BY <1>1, <2>1, NumBlocksPositive, LenProperties
  <2>3. free_block_ids # <<>>
    BY <1>1, <2>2, EmptySeq DEF TypeInv, MethodHasRoom
  <2>4. Head(free_block_ids) \in BlockId /\ Head(free_block_ids) \notin used_block_ids
    BY <1>1, <2>3, EndsType, TailRange DEF PoolInv, PoolPartition
  <2> QED
    BY <1>1, <1>2, <2>4, AllocateFreshCache DEF AllocateMiss
<1>3. CASE AllocateRevived
  <2>1. hash_to_block_id[NextHash] \in BlockId
    BY <1>1, <1>3 DEF AllocateRevived, CacheHit, TypeOK
  <2> QED
    BY <1>1, <1>3, <2>1, AllocateFreshCache DEF AllocateRevived
<1> QED
  BY <1>2, <1>3, AllocateSharedCache DEF AllocateStep

(***************************************************************************)
(* A block with two entries has a count of two at least.                   *)
(***************************************************************************)
LEMMA TwoEntries ==
  ASSUME TypeOK, PoolInv, NEW b \in BlockId,
         NEW u \in Request, NEW i \in Held(u), block_table[u][i] = b,
         NEW v \in Request, NEW j \in Held(v), block_table[v][j] = b,
         ~ (u = v /\ i = j)
  PROVE  ref_count[b] > 1
<1> DEFINE x == <<u, i>>
           y == <<v, j>>
<1>1. x # y
  OBVIOUS
<1>2. x \in References(b) /\ y \in References(b)
  BY ReferenceMember
<1> HIDE DEF x, y
<1>3. PICK R : R = References(b)
  OBVIOUS
<1>4. IsFiniteSet(R) /\ ref_count[b] = Cardinality(R)
  BY <1>3 DEF PoolInv, RefInv, RefCountExact
<1>5. IsFiniteSet(R \ {x}) /\ Cardinality(R \ {x}) = Cardinality(R) - 1
  BY <1>2, <1>3, <1>4, FS_RemoveElement
<1>6. R \ {x} # {}
  BY <1>1, <1>2, <1>3
<1>7. Cardinality(R \ {x}) \in Nat /\ Cardinality(R \ {x}) # 0 /\ Cardinality(R) \in Nat
  BY <1>4, <1>5, <1>6, FS_CardinalityType, FS_EmptySet
<1> QED
  BY <1>4, <1>5, <1>7

(***************************************************************************)
(* copy_on_write copies the label with the block.                          *)
(***************************************************************************)
LEMMA CopyOnWriteCache ==
  ASSUME TypeInv, PoolInv, CacheInv, NEW s \in Request, CopyOnWrite(s)
  PROVE  CacheInv'
<1>1. /\ TypeOK /\ op = "idle" /\ op' \in {"idle", "may_append"}
      /\ UNCHANGED <<token_ids, placed>>
      /\ block_table[s] # <<>> /\ block_table[s] \in Seq(BlockId)
  BY DEF CopyOnWrite, Idle, Call, callVars, seqVars, TypeInv, TypeOK, TablesFollowStatus
<1>2. ChainFollows'
  BY <1>1 DEF ChainFollows
<1>3. \A u \in Request : Settled(u)' = Settled(u)
  BY <1>1 DEF Settled, SeqLen
<1>4. \A u \in Request : /\ Held(u) = DOMAIN block_table[u]
                         /\ Held(u)' = DOMAIN block_table'[u]
  BY <1>1, HeldOutsideSwapOut
<1>5. CASE UNCHANGED <<block_table, poolVars, cacheVars>>
  <2>1. ref_count' = ref_count
    BY <1>5 DEF poolVars
  <2>2. LabelInv'
    BY <1>1, <1>3, <1>4, <1>5, <2>1, QuietLabels DEF CacheInv
  <2> QED
    BY <1>2, <2>2 DEF CacheInv
<1>6. CASE CopiesLastBlock(s) /\ Label(Head(free_block_ids), block_hash[last_block(s)],
                                       block_token_ids[last_block(s)])
  <2>1. PICK k \in Nat \ {0} : k = Len(block_table[s]) /\ DOMAIN block_table[s] = 1 .. k
    BY <1>1, EndsType, LenProperties
  <2>2. PICK old \in BlockId : old = last_block(s)
    BY <1>1, EndsType DEF last_block
  <2>3. old = block_table[s][k]
    BY <2>1, <2>2 DEF last_block, Last
  <2>4. PICK new \in BlockId : new = Head(free_block_ids) /\ new \in Range(free_block_ids)
    BY <1>1, <1>6, EndsType, TailRange DEF CopiesLastBlock, TypeOK, PoolInv, PoolPartition
  <2>5. PICK h, tokens : h = block_hash[old] /\ tokens = block_token_ids[old]
    OBVIOUS
  <2>6. Label(new, h, tokens)
    BY <1>6, <2>2, <2>4, <2>5
  <2>7. ref_count[new] = 0 /\ ref_count[old] > 1
    BY <1>1, <1>6, <2>2, <2>4, FreeHasNoCount DEF CopiesLastBlock
  <2>8. /\ ref_count'[new] = 1
        /\ \A c \in BlockId \ {new} : ref_count'[c] > 1 => ref_count[c] > 1
    <3>1. ref_count' = [ref_count EXCEPT ![new] = 1, ![old] = ref_count[old] - 1]
      <4>1. ref_count' = [ref_count EXCEPT ![new] = 1, ![old] = @ - 1] /\ new # old
        BY <1>6, <2>2, <2>4, <2>7 DEF CopiesLastBlock
      <4> QED
        BY <1>1, <4>1 DEF TypeOK
    <3>2. ref_count \in [BlockId -> Int] /\ new # old
      <4>1. TypeOK
        BY <1>1
      <4>2. ref_count \in [BlockId -> Int]
        BY <4>1 DEF TypeOK
      <4> QED
        BY <2>7, <4>2
    <3>3. ref_count'[new] = 1
      BY <3>1, <3>2
    <3>4. \A c \in BlockId \ {new, old} : ref_count'[c] = ref_count[c]
      BY <3>1, <3>2
    <3> QED
      BY <2>7, <3>3, <3>4
  <2>9. block_table' = [block_table EXCEPT ![s] = [block_table[s] EXCEPT ![k] = new]]
    BY <1>6, <2>1, <2>4 DEF CopiesLastBlock
  <2>10. /\ block_table'[s][k] = new
         /\ DOMAIN block_table'[s] = 1 .. k
         /\ \A i \in 1 .. k : i # k => block_table'[s][i] = block_table[s][i]
         /\ \A u \in Request \ {s} : block_table'[u] = block_table[u]
    <3>1. block_table \in [Request -> Seq(BlockId)]
      BY <1>1 DEF TypeOK
    <3>2. block_table'[s] = [block_table[s] EXCEPT ![k] = new]
      BY <2>9, <3>1
    <3>3. \A u \in Request \ {s} : block_table'[u] = block_table[u]
      BY <2>9, <3>1
    <3>4. /\ block_table'[s][k] = new
          /\ DOMAIN block_table'[s] = 1 .. k
          /\ \A i \in 1 .. k : i # k => block_table'[s][i] = block_table[s][i]
      BY <2>1, <3>2
    <3> QED
      BY <3>3, <3>4
  <2>11. \A u \in Request : \A i \in Held(u)' :
           /\ ~ (u = s /\ i = k) => i \in Held(u) /\ block_table'[u][i] = block_table[u][i]
           /\ ~ (u = s /\ i = k) => (i * BlockSize <= Settled(u)' => i * BlockSize <= Settled(u))
    BY <1>3, <1>4, <2>1, <2>10
  <2>12. h # NoHash /\ LastBlockOf(h) = tokens
    BY <2>2, <2>5, <2>7 DEF CacheInv, LabelInv, SharedBlocksFull, IndexInv, LabelsIndexed
  <2>13. k \in Held(s) /\ EntryHash(s, k) = h
    BY <1>4, <2>1, <2>3, <2>5 DEF EntryHash
  <2>14. k * BlockSize > SeqLen(s) => h = NoHash
    BY <2>13 DEF CacheInv, LabelInv, LabelsFollow
  <2>15. BlocksDeterminePrefix' => BlocksDeterminePrefix
    BY <1>1, <2>6, LabelKeepsPremise
  <2>16. BlocksDeterminePrefix' => h = PrefixHash(s, k)
    BY <2>12, <2>13, <2>15 DEF CacheInv, LabelInv, LabelsArePrefixes
  <2>17. LabelInv /\ UNCHANGED token_ids
    BY <1>1 DEF CacheInv
  <2>18. LabelInv'
    BY <2>6, <2>7, <2>8, <2>10, <2>11, <2>12, <2>14, <2>16, <2>17, FreshLabel
  <2> QED
    BY <1>2, <2>18 DEF CacheInv
<1> QED
  BY <1>1, <1>5, <1>6 DEF CopyOnWrite, CopiesLastBlock

(***************************************************************************)
(* Where the token of may_append lies: behind the last page, at the end of *)
(* the last page, or inside it.                                            *)
(***************************************************************************)
LEMMA AppendPosition ==
  ASSUME TypeInv, FitInv, op = "may_append", NEW s \in Request, s = cur
  PROVE  \E n \in Nat \ {0} :
           /\ n = Len(block_table[s])
           /\ SeqLen(s) \in Nat \ {0} /\ ~placed[s] /\ Settled(s) = SeqLen(s) - 1
           /\ Remainder = 1 => /\ n * BlockSize = SeqLen(s) - 1
                               /\ (n + 1) * BlockSize > SeqLen(s)
                               /\ \A i \in 1 .. n : i * BlockSize <= SeqLen(s) - 1
           /\ Remainder = 0 => /\ n * BlockSize = SeqLen(s) /\ num_blocks(s) = n
                               /\ \A i \in 1 .. n - 1 : i * BlockSize <= SeqLen(s) - 1
           /\ Remainder \notin {0, 1} => /\ n * BlockSize > SeqLen(s)
                                         /\ \A i \in Nat : i * BlockSize # SeqLen(s)
<1>1. BlockSize \in Nat /\ BlockSize >= 2
  BY BlockManagerAssumption
<1>2. PICK L : L = SeqLen(s)
  OBVIOUS
<1>3. L \in Nat \ {0}
  <2>1. token_ids[s] \in Seq(Token) /\ token_ids[s] # <<>>
    BY DEF TypeInv, TypeOK, MethodHasRoom, TablesFollowStatus
  <2> QED
    BY <1>2, <2>1, EmptySeq DEF SeqLen
<1>4. PICK n : n = Len(block_table[s])
  OBVIOUS
<1>5. status[s] = "running" /\ ~placed[s]
  BY DEF TypeInv, MethodHasRoom, FitInv
<1>6. n \in Nat \ {0}
  <2>1. block_table[s] \in Seq(BlockId) /\ block_table[s] # <<>>
    BY <1>5 DEF TypeInv, TypeOK, TablesFollowStatus
  <2> QED
    BY <1>4, <2>1, EmptySeq
<1>7. Settled(s) = L - 1 /\ n = PagesFor(L - 1)
  BY <1>2, <1>4, <1>5 DEF Settled, Slotted, FitInv, FitsOnGpu
<1>8. num_blocks(s) = PagesFor(L) /\ Remainder = L % BlockSize
  BY <1>2 DEF num_blocks, PagesFor, Remainder
<1> DEFINE q == L \div BlockSize
           r == L % BlockSize
<1>9. q \in Nat /\ r \in 0 .. BlockSize - 1 /\ L = q * BlockSize + r
  BY <1>1, <1>3
<1>10. /\ Remainder = r
       /\ r = 1 => PagesFor(L) = n + 1
       /\ r # 1 => PagesFor(L) = n
  BY <1>3, <1>6, <1>7, <1>8, NextPage
<1> HIDE DEF q, r
<1>11. \A i \in Nat : /\ i < PagesFor(L) <=> i * BlockSize < L
                      /\ i * BlockSize \in Nat
                      /\ (i + 1) * BlockSize = i * BlockSize + BlockSize
  BY <1>1, <1>3, PagesReach
\* The only multiple of BlockSize that L can be is q * BlockSize.
<1>12. \A i \in Nat : i * BlockSize = L => r = 0
  <2>1. \A i \in Nat : (i * BlockSize) % BlockSize = 0
    BY <1>1
  <2> QED
    BY <2>1 DEF r
<1>13. CASE r = 1
  <2>1. \A i \in 1 .. n : i * BlockSize <= L - 1
    BY <1>3, <1>6, <1>10, <1>11, <1>13
  <2>2. (n + 1) * BlockSize > L
    <3>1. n + 1 \in Nat /\ ~ (n + 1 < PagesFor(L))
      BY <1>6, <1>9, <1>10, <1>13
    <3>2. (n + 1) * BlockSize # L
      BY <1>12, <1>13, <3>1
    <3>3. ~ ((n + 1) * BlockSize < L) /\ (n + 1) * BlockSize \in Nat
      BY <1>11, <3>1
    <3> QED
      BY <1>3, <3>2, <3>3
  <2>3. n * BlockSize = L - 1
    <3>1. n * BlockSize <= q * BlockSize /\ n * BlockSize + BlockSize > q * BlockSize + 1
      BY <1>3, <1>6, <1>9, <1>11, <1>13, <2>1, <2>2
    <3>2. q < PagesFor(L) /\ ~ (q + 1 < PagesFor(L))
      <4>1. q * BlockSize < L /\ ~ ((q + 1) * BlockSize < L)
        BY <1>1, <1>9, <1>11, <1>13
      <4> QED
        BY <1>9, <1>11, <4>1
    <3>3. q = n
      BY <1>6, <1>9, <1>10, <1>13, <3>2
    <3> QED
      BY <1>3, <1>9, <1>11, <1>13, <3>3
  <2> QED
    BY <1>2, <1>3, <1>4, <1>5, <1>6, <1>7, <1>10, <1>13, <2>1, <2>2, <2>3
<1>14. CASE r = 0
  <2>1. L = q * BlockSize
    BY <1>1, <1>9, <1>14
  <2>2. q \in Nat \ {0}
    <3>1. 0 * BlockSize = 0
      BY <1>1
    <3> QED
      BY <1>3, <1>9, <2>1, <3>1
  <2>3. ~ (q < PagesFor(L)) /\ q - 1 < PagesFor(L)
    <3>1. q - 1 \in Nat /\ (q - 1) + 1 = q
      BY <2>2
    <3>2. q * BlockSize = (q - 1) * BlockSize + BlockSize
      BY <1>11, <3>1
    <3>3. (q - 1) * BlockSize < L
      BY <1>1, <1>11, <2>1, <3>1, <3>2
    <3>4. ~ (q * BlockSize < L)
      BY <1>3, <2>1
    <3> QED
      BY <1>11, <2>2, <3>1, <3>3, <3>4
  <2>4. n = q /\ PagesFor(L) = n
    BY <1>6, <1>9, <1>10, <1>14, <2>2, <2>3
  <2>5. \A i \in 1 .. n - 1 : i * BlockSize <= L - 1
    BY <1>3, <1>6, <1>11, <2>4
  <2> QED
    BY <1>2, <1>3, <1>4, <1>5, <1>6, <1>7, <1>8, <1>10, <1>14, <2>1, <2>4, <2>5
<1>15. CASE r \notin {0, 1}
  <2>1. PagesFor(L) = n
    BY <1>9, <1>10, <1>15
  <2>2. n * BlockSize > L
    <3>1. n * BlockSize # L
      BY <1>6, <1>12, <1>15
    <3>2. ~ (n * BlockSize < L) /\ n * BlockSize \in Nat
      BY <1>6, <1>11, <2>1
    <3> QED
      BY <1>3, <3>1, <3>2
  <2>3. \A i \in Nat : i * BlockSize # L
    BY <1>12, <1>15
  <2> QED
    BY <1>2, <1>3, <1>4, <1>5, <1>6, <1>7, <1>10, <1>15, <2>2, <2>3
<1> QED
  BY <1>13, <1>14, <1>15

(***************************************************************************)
(* A block without a label has one reader: the sequence that appends to it *)
(* is alone.                                                               *)
(***************************************************************************)
LEMMA UnlabelledAlone ==
  ASSUME TypeOK, PoolInv, SharedBlocksFull,
         NEW s \in Request, NEW n \in Held(s), EntryHash(s, n) = NoHash,
         NEW u \in Request, NEW i \in Held(u), ~ (u = s /\ i = n)
  PROVE  block_table[u][i] # block_table[s][n]
<1> SUFFICES ASSUME block_table[u][i] = block_table[s][n]
             PROVE  FALSE
  OBVIOUS
<1>1. PICK b \in BlockId : b = block_table[s][n]
  BY HeldEntry
<1>2. ref_count[b] > 1
  BY <1>1, TwoEntries
<1> QED
  BY <1>1, <1>2 DEF SharedBlocksFull, EntryHash

\* The last page of the sequence that appends.
LEMMA LastHeld ==
  ASSUME TypeOK, op # "swap_out", NEW s \in Request,
         NEW n \in Nat \ {0}, n = Len(block_table[s])
  PROVE  /\ n \in Held(s) /\ last_block(s) = block_table[s][n]
         /\ last_block(s) \in BlockId
<1>1. block_table[s] \in Seq(BlockId)
  BY DEF TypeOK
<1>2. DOMAIN block_table[s] = 1 .. n
  BY <1>1, LenProperties
<1>3. n \in Held(s)
  BY <1>2, HeldOutsideSwapOut
<1> QED
  BY <1>3, HeldEntry DEF last_block, Last

(***************************************************************************)
(* may_append takes a new block: the blocks behind it are full and placed. *)
(***************************************************************************)
LEMMA AppendNewBlockCache ==
  ASSUME TypeInv, PoolInv, FitInv, CacheInv, AppendNewBlock
  PROVE  LabelInv'
<1>1. PICK s \in Request : s = cur
  BY BlockManagerAssumption DEF TypeInv, TypeOK, AppendNewBlock, Appending
<1>2. PICK b : b = Head(free_block_ids)
  OBVIOUS
<1>3. /\ TypeOK /\ op = "may_append" /\ op' = "idle" /\ free_block_ids # <<>>
      /\ Remainder = 1
      /\ UNCHANGED token_ids
      /\ placed' = [placed EXCEPT ![s] = TRUE]
      /\ ref_count' = [ref_count EXCEPT ![b] = 1]
      /\ block_table' = [block_table EXCEPT ![s] = Append(block_table[s], b)]
      /\ Label(b, NoHash, <<>>)
  BY <1>1, <1>2 DEF AppendNewBlock, Appending, AppendDone, Return, Call, allocate_block, TypeInv
<1>4. PICK n \in Nat \ {0} :
        /\ n = Len(block_table[s])
        /\ SeqLen(s) \in Nat \ {0} /\ ~placed[s] /\ Settled(s) = SeqLen(s) - 1
        /\ Remainder = 1 => /\ n * BlockSize = SeqLen(s) - 1
                            /\ (n + 1) * BlockSize > SeqLen(s)
                            /\ \A i \in 1 .. n : i * BlockSize <= SeqLen(s) - 1
  BY <1>1, <1>3, AppendPosition
<1>5. b \in BlockId /\ ref_count[b] = 0
  <2>1. free_block_ids \in Seq(BlockId)
    BY <1>3 DEF TypeOK
  <2>2. b \in BlockId /\ b \in Range(free_block_ids)
    BY <1>2, <1>3, <2>1, EndsType, TailRange DEF PoolInv, PoolPartition
  <2> QED
    BY <1>3, <2>2, FreeHasNoCount
<1>6. PICK k : k = n + 1
  OBVIOUS
<1>7. TypeOK /\ op # "swap_out" /\ op' # "swap_out"
  BY <1>3
<1>8. block_table' = [block_table EXCEPT ![s] = Append(block_table[s], b)]
  BY <1>3
<1>9. block_table'[s][Len(block_table[s]) + 1] = b
  BY <1>5, <1>7, <1>8, GrownTable
<1>10. \A u \in Request : \A i \in Held(u)' : ~ (u = s /\ i = Len(block_table[s]) + 1) =>
         i \in Held(u) /\ block_table'[u][i] = block_table[u][i]
  BY <1>5, <1>7, <1>8, GrownHeld
<1>11. Settled(s)' = SeqLen(s) /\ \A u \in Request \ {s} : Settled(u)' = Settled(u)
  BY <1>3 DEF Settled, SeqLen, TypeOK
<1>12. \A i \in Held(s)' : i # k => i * BlockSize <= Settled(s)
  <2> SUFFICES ASSUME NEW i \in Held(s)', i # k
               PROVE  i * BlockSize <= Settled(s)
    OBVIOUS
  <2>1. i \in Held(s)
    BY <1>4, <1>6, <1>10
  <2>2. i \in 1 .. n
    BY <1>3, <1>4, <2>1, HeldEntry
  <2> QED
    BY <1>3, <1>4, <2>2
<1>13. \A u \in Request : \A i \in Held(u)' :
         /\ ~ (u = s /\ i = k) => i \in Held(u) /\ block_table'[u][i] = block_table[u][i]
         /\ ~ (u = s /\ i = k) => (i * BlockSize <= Settled(u)' => i * BlockSize <= Settled(u))
  BY <1>4, <1>6, <1>10, <1>11, <1>12
<1>14. block_table'[s][k] = b
  BY <1>4, <1>6, <1>9
<1>15. /\ ref_count'[b] = 1
       /\ \A c \in BlockId \ {b} : ref_count'[c] > 1 => ref_count[c] > 1
  BY <1>3, <1>5 DEF TypeOK
<1>16. ~ (k * BlockSize <= Settled(s)')
  <2>1. (n + 1) * BlockSize \in Nat
    BY BlockManagerAssumption
  <2> QED
    BY <1>3, <1>4, <1>6, <1>11, <2>1
<1>17. PICK h, tokens : h = NoHash /\ tokens = <<>>
  OBVIOUS
<1>18. /\ Label(b, h, tokens)
       /\ h # NoHash => LastBlockOf(h) = tokens
       /\ k * BlockSize <= Settled(s)' => h # NoHash
       /\ k * BlockSize > SeqLen(s) => h = NoHash
       /\ BlocksDeterminePrefix' /\ h # NoHash => h = PrefixHash(s, k)
  BY <1>3, <1>16, <1>17
<1>19. LabelInv /\ UNCHANGED token_ids
  BY <1>3 DEF CacheInv
<1> QED
  BY <1>5, <1>13, <1>14, <1>15, <1>18, <1>19, FreshLabel

(***************************************************************************)
(* The chain of a block that has just been filled, from the label of the   *)
(* block before it.                                                        *)
(***************************************************************************)
AppendTokens(s) == block(s, num_blocks(s))

AppendPrefix(s) ==
  LET n == Len(block_table[s])
  IN IF n > 1 THEN block_hash[block_table[s][n - 1]] ELSE NoHash

LEMMA AppendChain ==
  ASSUME TypeInv, FitInv, LabelInv, op = "may_append", NEW s \in Request, s = cur,
         Remainder = 0,
         NEW n \in Nat \ {0}, n = Len(block_table[s])
  PROVE  LET h == compute_hash(AppendTokens(s), AppendPrefix(s))
         IN /\ h # NoHash /\ LastBlockOf(h) = AppendTokens(s)
            /\ BlocksDeterminePrefix => h = PrefixHash(s, n)
<1> DEFINE tokens == AppendTokens(s)
           prefix == AppendPrefix(s)
<1>1. TypeOK
  BY DEF TypeInv
<1>2. BlockSize \in Nat /\ BlockSize >= 2
  BY BlockManagerAssumption
<1>3. /\ SeqLen(s) \in Nat \ {0} /\ Settled(s) = SeqLen(s) - 1
      /\ n * BlockSize = SeqLen(s) /\ num_blocks(s) = n
      /\ \A i \in 1 .. n - 1 : i * BlockSize <= SeqLen(s) - 1
  BY AppendPosition
<1>4. tokens = block(s, n) /\ tokens \in Seq(Token)
  BY <1>1, <1>3, BlockType DEF AppendTokens
<1>5. n - 1 \in Nat /\ (n - 1) + 1 = n
  OBVIOUS
<1>6. (n - 1) * BlockSize < SeqLen(s)
  <2>1. n * BlockSize = (n - 1) * BlockSize + BlockSize /\ (n - 1) * BlockSize \in Nat
    BY <1>2, <1>5
  <2> QED
    BY <1>2, <1>3, <2>1
<1>7. /\ Len(tokens) = BlockSize
      /\ PrefixHash(s, n) = PrefixHash(s, n - 1) \o tokens
  <2>1. n * BlockSize <= SeqLen(s)
    BY <1>3
  <2>2. /\ Len(block(s, (n - 1) + 1)) = BlockSize <=> ((n - 1) + 1) * BlockSize <= SeqLen(s)
        /\ ((n - 1) + 1) * BlockSize <= SeqLen(s) =>
             PrefixHash(s, (n - 1) + 1) = PrefixHash(s, n - 1) \o block(s, (n - 1) + 1)
    BY <1>1, <1>5, <1>6, BlockBehind
  <2> HIDE DEF tokens
  <2> QED
    BY <1>4, <1>5, <2>1, <2>2
<1>8. /\ prefix \in Seq(Token)
      /\ BlocksDeterminePrefix => prefix = PrefixHash(s, n - 1)
  <2>1. CASE n > 1
    <3>1. n - 1 \in Held(s)
      <4>1. block_table[s] \in Seq(BlockId)
        BY <1>1 DEF TypeOK
      <4>2. DOMAIN block_table[s] = 1 .. n
        BY <4>1, LenProperties
      <4> QED
        BY <2>1, <4>2, HeldOutsideSwapOut
    <3>2. prefix = EntryHash(s, n - 1)
      BY <2>1 DEF AppendPrefix, EntryHash
    <3>3. (n - 1) * BlockSize <= Settled(s)
      BY <1>3, <2>1
    <3>4. EntryHash(s, n - 1) # NoHash
      BY <3>1, <3>3 DEF LabelInv, LabelsFollow
    <3>5. EntryHash(s, n - 1) \in Seq(Token)
      BY <1>1, <3>1, HeldEntry DEF EntryHash, TypeOK
    <3>6. BlocksDeterminePrefix => EntryHash(s, n - 1) = PrefixHash(s, n - 1)
      BY <3>1, <3>4 DEF LabelInv, LabelsArePrefixes
    <3> QED
      BY <3>2, <3>5, <3>6
  <2>2. CASE ~ (n > 1)
    <3>1. n - 1 = 0
      <4>1. \A k \in Nat \ {0} : ~ (k > 1) => k - 1 = 0
        OBVIOUS
      <4>2. n \in Nat \ {0} /\ ~ (n > 1)
        BY <2>2
      <4> QED
        BY <4>1, <4>2
    <3>2. prefix = NoHash
      BY <2>2 DEF AppendPrefix
    <3>3. PrefixHash(s, n - 1) = NoHash
      BY <3>1, EmptyPrefix
    <3> QED
      BY <3>2, <3>3, EmptySeq DEF NoHash
  <2> QED
    BY <2>1, <2>2
<1> HIDE DEF tokens, prefix
<1>9. /\ compute_hash(tokens, prefix) # NoHash
      /\ LastBlockOf(compute_hash(tokens, prefix)) = tokens
  BY <1>4, <1>7, <1>8, ChainEnd
<1>10. BlocksDeterminePrefix => compute_hash(tokens, prefix) = PrefixHash(s, n)
  BY <1>7, <1>8 DEF compute_hash
<1> QED
  BY <1>9, <1>10 DEF tokens, prefix

(***************************************************************************)
(* may_append labels the block it fills, which had one reader.             *)
(***************************************************************************)
LEMMA AppendFillsBlockCache ==
  ASSUME TypeInv, PoolInv, FitInv, CacheInv, AppendFillsBlock
  PROVE  LabelInv'
<1>1. PICK s \in Request : s = cur
  BY BlockManagerAssumption DEF TypeInv, TypeOK, AppendFillsBlock, Appending
<1>2. PICK b, h, tokens : /\ b = last_block(s)
                          /\ tokens = AppendTokens(s)
                          /\ h = compute_hash(AppendTokens(s), AppendPrefix(s))
  OBVIOUS
<1>3. /\ TypeOK /\ op = "may_append" /\ op' = "idle"
      /\ Remainder = 0
      /\ block_hash[b] = NoHash
      /\ UNCHANGED <<token_ids, block_table, ref_count>>
      /\ placed' = [placed EXCEPT ![s] = TRUE]
      /\ Label(b, h, tokens)
  BY <1>1, <1>2
  DEF AppendFillsBlock, Appending, AppendDone, Return, Call, TypeInv, poolVars,
      AppendTokens, AppendPrefix
<1>4. PICK n \in Nat \ {0} :
        /\ n = Len(block_table[s])
        /\ SeqLen(s) \in Nat \ {0} /\ ~placed[s] /\ Settled(s) = SeqLen(s) - 1
        /\ Remainder = 0 => /\ n * BlockSize = SeqLen(s) /\ num_blocks(s) = n
                            /\ \A i \in 1 .. n - 1 : i * BlockSize <= SeqLen(s) - 1
  BY <1>1, <1>3, AppendPosition
<1>5. LabelInv /\ IndexInv /\ SharedBlocksFull /\ LabelsFollow /\ LabelsArePrefixes
  BY DEF CacheInv, LabelInv
<1>6. /\ h # NoHash /\ LastBlockOf(h) = tokens
      /\ BlocksDeterminePrefix => h = PrefixHash(s, n)
  <2>1. n = Len(block_table[s])
    BY <1>4
  <2>2. /\ compute_hash(AppendTokens(s), AppendPrefix(s)) # NoHash
        /\ LastBlockOf(compute_hash(AppendTokens(s), AppendPrefix(s))) = AppendTokens(s)
        /\ BlocksDeterminePrefix =>
             compute_hash(AppendTokens(s), AppendPrefix(s)) = PrefixHash(s, n)
    BY <1>1, <1>3, <1>5, <2>1, AppendChain
  <2> QED
    BY <1>2, <2>2
<1>7. n \in Held(s) /\ b = block_table[s][n] /\ b \in BlockId
  <2>1. op # "swap_out" /\ n = Len(block_table[s])
    BY <1>3, <1>4
  <2> QED
    BY <1>2, <1>3, <2>1, LastHeld
<1>8. EntryHash(s, n) = NoHash
  BY <1>3, <1>7 DEF EntryHash
<1>9. /\ block_hash'[b] = h
      /\ \A c \in BlockId \ {b} : block_hash'[c] = block_hash[c]
      /\ BlocksDeterminePrefix' => BlocksDeterminePrefix
  BY <1>3, <1>7, LabelEffect, LabelKeepsPremise
<1>10. \A u \in Request : Held(u)' = Held(u)
  BY <1>3, HeldOutsideSwapOut
<1>11. Settled(s)' = SeqLen(s) /\ \A u \in Request \ {s} : Settled(u)' = Settled(u)
  BY <1>3 DEF Settled, SeqLen, TypeOK
<1>12. ASSUME NEW u \in Request, NEW i \in Held(u)', ~ (u = s /\ i = n)
       PROVE  /\ i \in Held(u)
              /\ EntryHash(u, i)' = EntryHash(u, i)
              /\ i * BlockSize <= Settled(u)' => i * BlockSize <= Settled(u)
  <2>1. i \in Held(u)
    BY <1>10
  <2>2. block_table[u][i] \in BlockId \ {b}
    <3>1. block_table[u][i] \in BlockId
      BY <1>3, <2>1, HeldEntry
    <3>2. block_table[u][i] # block_table[s][n]
      BY <1>3, <1>5, <1>7, <1>8, <1>12, <2>1, UnlabelledAlone
    <3> QED
      BY <1>7, <3>1, <3>2
  <2>3. EntryHash(u, i)' = EntryHash(u, i)
    BY <1>3, <1>9, <2>2 DEF EntryHash
  <2>4. i * BlockSize <= Settled(u)' => i * BlockSize <= Settled(u)
    <3>1. CASE u # s
      BY <1>11, <3>1
    <3>2. CASE u = s
      <4>1. i \in Nat \ {0} /\ i <= n
        BY <1>3, <1>4, <2>1, <3>2, HeldEntry
      <4>2. i \in 1 .. n - 1
        BY <1>12, <3>2, <4>1
      <4> QED
        BY <1>3, <1>4, <3>2, <4>2
    <3> QED
      BY <3>1, <3>2
  <2> QED
    BY <2>1, <2>3, <2>4
<1>13. EntryHash(s, n)' = h
  BY <1>3, <1>7, <1>9 DEF EntryHash
<1>14. ~ (n * BlockSize > SeqLen(s))
  BY <1>3, <1>4
<1>15. LabelsFollow' /\ LabelsArePrefixes'
  <2>1. UNCHANGED token_ids
    BY <1>3
  <2> QED
    BY <1>5, <1>6, <1>9, <1>12, <1>13, <1>14, <2>1, EntriesKept
<1>16. IndexInv'
  BY <1>3, <1>5, <1>6, <1>7, LabelKeepsIndex
<1>17. SharedBlocksFull'
  BY <1>3, <1>5, <1>6, <1>9 DEF SharedBlocksFull
<1> QED
  BY <1>15, <1>16, <1>17 DEF LabelInv

(***************************************************************************)
(* A token inside a block fills nothing.                                   *)
(***************************************************************************)
LEMMA AppendInsideCache ==
  ASSUME TypeInv, PoolInv, FitInv, CacheInv, AppendInside
  PROVE  LabelInv'
<1>1. PICK s \in Request : s = cur
  BY BlockManagerAssumption DEF TypeInv, TypeOK, AppendInside, Appending
<1>2. /\ TypeOK /\ op = "may_append" /\ op' = "idle"
      /\ Remainder \notin {0, 1}
      /\ UNCHANGED <<token_ids, block_table, ref_count, cacheVars>>
      /\ placed' = [placed EXCEPT ![s] = TRUE]
  BY <1>1 DEF AppendInside, Appending, AppendDone, Return, Call, TypeInv, poolVars
<1>3. /\ SeqLen(s) \in Nat \ {0} /\ Settled(s) = SeqLen(s) - 1
      /\ \A i \in Nat : i * BlockSize # SeqLen(s)
  BY <1>1, <1>2, AppendPosition
<1>4. \A u \in Request : Held(u)' = Held(u)
  BY <1>2, HeldOutsideSwapOut
<1>5. Settled(s)' = SeqLen(s) /\ \A u \in Request \ {s} : Settled(u)' = Settled(u)
  BY <1>2 DEF Settled, SeqLen, TypeOK
<1>6. ASSUME NEW u \in Request, NEW i \in Held(u)'
      PROVE  /\ i \in Held(u)
             /\ block_table'[u][i] = block_table[u][i]
             /\ i * BlockSize <= Settled(u)' => i * BlockSize <= Settled(u)
  <2>1. i \in Held(u)
    BY <1>4
  <2>2. i \in Nat
    BY <1>2, <2>1, HeldEntry
  <2>3. i * BlockSize \in Nat
    BY <2>2, BlockManagerAssumption
  <2>4. i * BlockSize # SeqLen(s)
    BY <1>3, <2>2
  <2>5. i * BlockSize <= Settled(u)' => i * BlockSize <= Settled(u)
    BY <1>3, <1>5, <2>3, <2>4
  <2> QED
    BY <1>2, <2>1, <2>5
<1>7. LabelInv
  BY DEF CacheInv
<1> QED
  BY <1>2, <1>6, <1>7, QuietLabels

LEMMA AppendStepCache ==
  ASSUME TypeInv, PoolInv, FitInv, CacheInv, AppendStep
  PROVE  CacheInv'
<1>1. op' \in {"idle", "may_append"}
  BY DEF AppendStep, AppendNewBlock, AppendFillsBlock, AppendInside, AppendRaises, Raise,
         Appending, AppendDone, Return, Call, callVars
<1>2. CASE AppendRaises
  <2>1. UNCHANGED <<token_ids, placed, block_table, cpu_block_table, ref_count, cacheVars, op, cur>>
    BY <1>2 DEF AppendRaises, Raise, seqVars, poolVars, callVars
  <2>2. \A u \in Request : Held(u)' = Held(u) /\ Settled(u)' = Settled(u)
    BY <2>1 DEF Held, Settled, SeqLen
  <2>3. LabelInv'
    BY <2>1, <2>2, QuietLabels DEF CacheInv
  <2> QED
    BY <1>1, <2>3 DEF CacheInv, ChainFollows
<1>3. CASE ~AppendRaises
  <2>1. LabelInv'
    BY <1>3, AppendNewBlockCache, AppendFillsBlockCache, AppendInsideCache DEF AppendStep
  <2> QED
    BY <1>1, <2>1 DEF CacheInv, ChainFollows
<1> QED
  BY <1>2, <1>3

-----------------------------------------------------------------------------
(* The invariant and what follows from it.                                 *)

\* What is known of the current state and, where a step needs it, of the next.
ManagerInv == TypeInv /\ PoolInv /\ FitInv

LEMMA StepCache ==
  ASSUME ManagerInv, ManagerInv', CacheInv, [Next]_vars
  PROVE  CacheInv'
<1>1. TypeInv /\ PoolInv /\ FitInv /\ TypeInv'
  BY DEF ManagerInv
<1>2. ASSUME NEW s \in Request, NewSequence(s) PROVE CacheInv'
  BY <1>1, <1>2, NewSequenceCache
<1>3. ASSUME NEW s \in Request, NEW t \in Token, append_token(s, t) PROVE CacheInv'
  BY <1>1, <1>3, AppendTokenCache
<1>4. ASSUME NEW s \in Request, NEW n \in ChunkEnds, RecordComputed(s, n) PROVE CacheInv'
  BY <1>1, <1>4, RecordComputedCache
<1>5. ASSUME NEW s \in Request,
             BeginAllocate(s) \/ BeginFinish(s) \/ Preempt(s) \/ BeginSwapIn(s)
      PROVE  CacheInv'
  BY <1>1, <1>5, BeginCache
<1>6. ASSUME NEW s \in Request, CopyOnWrite(s) PROVE CacheInv'
  BY <1>1, <1>6, CopyOnWriteCache
<1>7. CASE AllocateStep
  BY <1>1, <1>7, AllocateStepCache
<1>8. CASE DeallocateStep
  BY <1>1, <1>8, DeallocateStepCache
<1>9. CASE SwapOutStep
  BY <1>1, <1>9, SwapOutStepCache
<1>10. CASE SwapInStep
  BY <1>1, <1>10, SwapInStepCache
<1>11. CASE AppendStep
  BY <1>1, <1>11, AppendStepCache
<1>12. CASE UNCHANGED vars
  <2>1. UNCHANGED <<token_ids, placed, block_table, cpu_block_table, ref_count, cacheVars,
                    op, cur, chain>>
    BY <1>12 DEF vars, seqVars, poolVars, callVars
  <2>2. \A u \in Request : Held(u)' = Held(u) /\ Settled(u)' = Settled(u)
    BY <2>1 DEF Held, Settled, SeqLen
  <2>3. LabelInv'
    BY <2>1, <2>2, QuietLabels DEF CacheInv
  <2>4. ChainFollows'
    BY <2>1 DEF CacheInv, ChainFollows, PrefixHash
  <2> QED
    BY <2>3, <2>4 DEF CacheInv
<1> QED
  BY <1>2, <1>3, <1>4, <1>5, <1>6, <1>7, <1>8, <1>9, <1>10, <1>11, <1>12 DEF Next, Stopped

LEMMA ManagerInvariant == Spec => []ManagerInv
<1>1. TypeInv /\ PoolInv /\ TypeInv /\ FitInv => ManagerInv
  BY DEF ManagerInv
<1> QED
  BY <1>1, PoolInvariant, FitInvariant, PTL

(***************************************************************************)
(* Labels follow the tokens: through allocation, sharing, copying, swapping*)
(* and growth, a block in a page table is labelled when its tokens are     *)
(* placed and fill it, not labelled when they cannot fill it, and labelled *)
(* with the chain of every sequence that holds it as long as contents      *)
(* determine prefixes.                                                     *)
(***************************************************************************)
THEOREM CacheInvariant == Spec => []CacheInv
<1>1. Init => CacheInv
  BY InitCache
<1>2. ManagerInv /\ ManagerInv' /\ CacheInv /\ [Next]_vars => CacheInv'
  BY StepCache
<1> QED
  BY <1>1, <1>2, ManagerInvariant, PTL DEF Spec

(***************************************************************************)
(* Every label is in the index, together with the content of its block.    *)
(***************************************************************************)
THEOREM LabelsAlwaysIndexed == Spec => []LabelsIndexed
<1>1. CacheInv => LabelsIndexed
  BY DEF CacheInv, LabelInv, IndexInv
<1> QED
  BY <1>1, CacheInvariant, PTL

(***************************************************************************)
(* Only full blocks are shared, whatever the mix of allocation, eviction   *)
(* and growth.                                                             *)
(***************************************************************************)
THEOREM OnlyFullBlocksShared == Spec => []SharedBlocksFull
<1>1. CacheInv => SharedBlocksFull
  BY DEF CacheInv, LabelInv
<1> QED
  BY <1>1, CacheInvariant, PTL

(***************************************************************************)
(* Prefix caching is sound under the condition that contents determine     *)
(* prefixes: two sequences that hold a block hold it at the same position  *)
(* and agree on every token up to its end.                                 *)
(***************************************************************************)
LEMMA HeldLabel ==
  ASSUME TypeOK, CacheInv, BlocksDeterminePrefix,
         NEW s \in Request, NEW i \in Held(s), EntryHash(s, i) # NoHash
  PROVE  /\ i * BlockSize <= SeqLen(s)
         /\ EntryHash(s, i) = PrefixHash(s, i)
         /\ Len(EntryHash(s, i)) = i * BlockSize
<1>1. i \in Nat \ {0} /\ SeqLen(s) \in Nat
  BY HeldEntry, SettledWithinLength
<1>2. i * BlockSize \in Nat
  BY <1>1, BlockManagerAssumption
<1>3. i * BlockSize <= SeqLen(s) /\ EntryHash(s, i) = PrefixHash(s, i)
  BY <1>1, <1>2 DEF CacheInv, LabelInv, LabelsFollow, LabelsArePrefixes
<1> QED
  BY <1>1, <1>3, PrefixType

LEMMA SharersMatch ==
  ASSUME ManagerInv, CacheInv
  PROVE  SharersAgree
<1> SUFFICES ASSUME BlocksDeterminePrefix,
                    NEW s \in Request, NEW t \in Request,
                    NEW i \in Held(s), NEW j \in Held(t),
                    block_table[s][i] = block_table[t][j],
                    ~ (s = t /\ i = j)
             PROVE  /\ i = j
                    /\ s # t => /\ i * BlockSize <= Len(token_ids[s])
                                /\ PrefixHash(s, i) = PrefixHash(t, i)
  BY DEF SharersAgree
<1>1. TypeOK /\ PoolInv
  BY DEF ManagerInv, TypeInv
<1>2. PICK b \in BlockId : b = block_table[s][i]
  BY <1>1, HeldEntry
<1>3. ref_count[b] > 1
  BY <1>1, <1>2, TwoEntries
<1>4. EntryHash(s, i) = block_hash[b] /\ EntryHash(t, j) = block_hash[b] /\ block_hash[b] # NoHash
  BY <1>2, <1>3 DEF CacheInv, LabelInv, SharedBlocksFull, EntryHash
<1>5. /\ i * BlockSize <= SeqLen(s)
      /\ block_hash[b] = PrefixHash(s, i)
      /\ Len(block_hash[b]) = i * BlockSize
  <2>1. EntryHash(s, i) # NoHash
    BY <1>4
  <2> QED
    BY <1>1, <1>4, <2>1, HeldLabel
<1>6. /\ block_hash[b] = PrefixHash(t, j)
      /\ Len(block_hash[b]) = j * BlockSize
  <2>1. EntryHash(t, j) # NoHash
    BY <1>4
  <2> QED
    BY <1>1, <1>4, <2>1, HeldLabel
<1>7. i \in Nat /\ j \in Nat
  BY <1>1, HeldEntry
<1>8. i = j
  <2>1. \A m, k \in Nat : m * BlockSize = k * BlockSize => m = k
    <3> SUFFICES ASSUME NEW m \in Nat, NEW k \in Nat, m * BlockSize = k * BlockSize
                 PROVE  m = k
      OBVIOUS
    <3>1. \A a \in Nat : (a * BlockSize) \div BlockSize = a
      BY BlockManagerAssumption
    <3> QED
      BY <3>1
  <2> QED
    BY <1>5, <1>6, <1>7, <2>1
<1> QED
  BY <1>5, <1>6, <1>8 DEF SeqLen

(***************************************************************************)
(* Two sequences that share a block have the same tokens up to its end, as *)
(* long as contents determine prefixes: the prefix cache never hands a     *)
(* sequence KV data of another prefix.                                     *)
(***************************************************************************)
THEOREM SharersAlwaysAgree == Spec => []SharersAgree
<1>1. ManagerInv /\ CacheInv => SharersAgree
  BY SharersMatch
<1> QED
  BY <1>1, ManagerInvariant, CacheInvariant, PTL

-----------------------------------------------------------------------------
(* The assertions of may_append.                                           *)

LEMMA BoundaryStep ==
  ASSUME ManagerInv, CacheInv, BoundaryAssertionsHold, [Next]_vars
  PROVE  BoundaryAssertionsHold'
<1>1. TypeInv /\ FitInv /\ TypeOK /\ LabelsFollow
  BY DEF ManagerInv, TypeInv, CacheInv, LabelInv
<1>2. CASE AppendRaises
  <2>1. PICK s \in Request : s = cur
    BY <1>1, <1>2, BlockManagerAssumption DEF TypeOK, AppendRaises, Appending
  <2>2. op = "may_append"
    BY <1>2 DEF AppendRaises, Appending
  <2>3. PICK n \in Nat \ {0} :
          /\ n = Len(block_table[s])
          /\ SeqLen(s) \in Nat \ {0} /\ Settled(s) = SeqLen(s) - 1
          /\ Remainder = 1 => n * BlockSize = SeqLen(s) - 1
          /\ Remainder \notin {0, 1} => n * BlockSize > SeqLen(s)
    BY <1>1, <2>1, <2>2, AppendPosition
  <2>4. n \in Held(s) /\ last_block(s) = block_table[s][n]
    <3>1. op # "swap_out" /\ n = Len(block_table[s])
      BY <2>2, <2>3
    <3> QED
      BY <1>1, <3>1, LastHeld
  <2>5. n * BlockSize \in Nat
    BY BlockManagerAssumption
  <2>6. Remainder = 1 => EntryHash(s, n) # NoHash
    BY <1>1, <2>3, <2>4, <2>5 DEF LabelsFollow
  <2>7. Remainder \notin {0, 1} => EntryHash(s, n) = NoHash
    BY <1>1, <2>3, <2>4 DEF LabelsFollow
  <2>8. EntryHash(s, n) = block_hash[last_block(cur)]
    BY <2>1, <2>4 DEF EntryHash
  <2> QED
    BY <1>2, <2>6, <2>7, <2>8 DEF AppendRaises, Raise, BoundaryAssertionsHold
<1>3. CASE \E s \in Request : CopyOnWrite(s)
  BY <1>3 DEF CopyOnWrite, BoundaryAssertionsHold
<1>4. ASSUME ~AppendRaises, ~ \E s \in Request : CopyOnWrite(s)
      PROVE  error' = error
  BY <1>4
  DEF Next, Stopped, vars, NewSequence, append_token, RecordComputed, BeginAllocate,
      BeginFinish, Preempt, BeginSwapIn, AllocateStep, AllocateMiss, AllocateShared,
      AllocateRevived, AddToTable, DeallocateStep, SwapOutStep, SwapInStep, AppendStep,
      AppendNewBlock, AppendFillsBlock, AppendInside, AppendDone
<1> QED
  BY <1>2, <1>3, <1>4 DEF BoundaryAssertionsHold

(***************************************************************************)
(* The assertions of may_append about the block that a sequence has just   *)
(* left and about a block that is not full never fail, swapping included.  *)
(***************************************************************************)
THEOREM BoundaryAssertionsNeverFail == Spec => []BoundaryAssertionsHold
<1>1. Init => BoundaryAssertionsHold
  BY DEF Init, BoundaryAssertionsHold
<1>2. ManagerInv /\ CacheInv /\ BoundaryAssertionsHold /\ [Next]_vars
        => BoundaryAssertionsHold'
  BY BoundaryStep
<1> QED
  BY <1>1, <1>2, ManagerInvariant, CacheInvariant, PTL DEF Spec

-----------------------------------------------------------------------------
(* Where may_append writes.                                                *)

\* No page table entry names a block of the free queue.
EntriesNotFree ==
  \A u \in Request : \A i \in Held(u) : block_table[u][i] \notin Range(free_block_ids)

LEMMA EntriesInUse ==
  ASSUME ManagerInv
  PROVE  EntriesNotFree
<1> SUFFICES ASSUME NEW u \in Request, NEW i \in Held(u),
                    block_table[u][i] \in Range(free_block_ids)
             PROVE  FALSE
  BY DEF EntriesNotFree
<1>1. TypeOK /\ PoolInv
  BY DEF ManagerInv, TypeInv
<1>2. PICK b \in BlockId : b = block_table[u][i]
  BY <1>1, HeldEntry
<1>3. ref_count[b] = 0
  BY <1>1, <1>2, FreeHasNoCount
<1> QED
  BY <1>1, <1>2, <1>3, NotHeld

LEMMA HeadUncounted ==
  ASSUME TypeOK, PoolInv, free_block_ids # <<>>
  PROVE  Head(free_block_ids) \in BlockId /\ ref_count[Head(free_block_ids)] = 0
<1>1. free_block_ids \in Seq(BlockId)
  BY DEF TypeOK
<1>2. Head(free_block_ids) \in BlockId /\ Head(free_block_ids) \in Range(free_block_ids)
  BY <1>1, EndsType, TailRange DEF PoolInv, PoolPartition
<1> QED
  BY <1>2, FreeHasNoCount

LEMMA MayAppendWrites ==
  ASSUME ManagerInv, ManagerInv', EntriesNotFree', CacheInv, [Next]_vars,
         NEW s \in Request, op = "may_append", cur = s, placed'[s]
  PROVE  LET b == Last(block_table'[s])
         IN /\ b \notin Range(free_block_ids')
            /\ \A t \in Request \ {s} : b \notin Range(block_table'[t])
<1>1. TypeInv /\ TypeOK /\ TypeOK' /\ PoolInv /\ FitInv /\ SharedBlocksFull
  BY DEF ManagerInv, TypeInv, CacheInv, LabelInv
<1>2. ~placed[s]
  BY <1>1 DEF FitInv
\* Only may_append itself places the token.
<1>3. AppendNewBlock \/ AppendFillsBlock \/ AppendInside
  BY <1>2
  DEF Next, Stopped, vars, seqVars, NewSequence, append_token, RecordComputed, BeginAllocate,
      BeginFinish, Preempt, BeginSwapIn, CopyOnWrite, Idle, AllocateStep, AllocateMiss,
      AllocateShared, AllocateRevived, DeallocateStep, SwapOutStep, SwapInStep, AppendStep,
      AppendRaises, Raise
<1>4. op' = "idle"
  BY <1>3 DEF AppendNewBlock, AppendFillsBlock, AppendInside, AppendDone, Return, Call
<1>5. \A u \in Request : /\ Held(u) = DOMAIN block_table[u]
                         /\ Held(u)' = DOMAIN block_table'[u]
  BY <1>4, HeldOutsideSwapOut
<1>6. PICK n \in Nat \ {0} : n = Len(block_table[s])
  BY <1>1, AppendPosition
<1>7. PICK k \in Held(s)' :
        /\ Last(block_table'[s]) = block_table'[s][k]
        /\ \A t \in Request \ {s} : \A j \in Held(t)' : block_table'[t][j] # block_table'[s][k]
  <2>1. CASE AppendNewBlock
    <3>1. PICK b : b = Head(free_block_ids)
      OBVIOUS
    <3>2. b \in BlockId /\ ref_count[b] = 0
      BY <1>1, <2>1, <3>1, HeadUncounted DEF AppendNewBlock
    <3>3. block_table' = [block_table EXCEPT ![s] = Append(block_table[s], b)]
      BY <2>1, <3>1 DEF AppendNewBlock
    <3>4. TypeOK /\ op # "swap_out" /\ op' # "swap_out"
      BY <1>1, <1>4
    <3>5. block_table'[s][Len(block_table[s]) + 1] = b
      BY <3>2, <3>3, <3>4, GrownTable
    <3>6. Len(block_table'[s]) = Len(block_table[s]) + 1
      BY <3>2, <3>3, <3>4, GrownTable
    <3>7. n + 1 \in Held(s)' /\ Last(block_table'[s]) = block_table'[s][n + 1]
      <4>1. block_table'[s] \in Seq(BlockId)
        BY <1>1 DEF TypeOK
      <4>2. Len(block_table'[s]) = n + 1
        BY <1>6, <3>6
      <4>3. n + 1 \in DOMAIN block_table'[s]
        BY <4>1, <4>2, LenProperties
      <4> QED
        BY <1>5, <4>2, <4>3 DEF Last
    <3>8. ASSUME NEW t \in Request \ {s}, NEW j \in Held(t)'
          PROVE  block_table'[t][j] # b
      <4>1. block_table'[t] = block_table[t]
        BY <1>1, <3>3 DEF TypeOK
      <4>2. j \in Held(t)
        BY <1>5, <4>1
      <4> QED
        BY <1>1, <3>2, <4>1, <4>2, NotHeld
    <3> QED
      BY <1>6, <3>5, <3>7, <3>8
  <2>2. CASE AppendFillsBlock \/ AppendInside
    <3>1. UNCHANGED block_table /\ block_hash[last_block(s)] = NoHash
      BY <2>2 DEF AppendFillsBlock, AppendInside
    <3>2. n \in Held(s) /\ last_block(s) = block_table[s][n]
      <4>1. op # "swap_out" /\ n = Len(block_table[s])
        BY <1>6
      <4> QED
        BY <1>1, <4>1, LastHeld
    <3>3. EntryHash(s, n) = NoHash
      BY <3>1, <3>2 DEF EntryHash
    <3>4. ASSUME NEW t \in Request \ {s}, NEW j \in Held(t)
          PROVE  block_table[t][j] # block_table[s][n]
      BY <1>1, <3>2, <3>3, UnlabelledAlone
    <3> QED
      BY <1>5, <1>6, <3>1, <3>2, <3>4 DEF Last
  <2> QED
    BY <1>3, <2>1, <2>2
<1>8. Last(block_table'[s]) \notin Range(free_block_ids')
  BY <1>7 DEF EntriesNotFree, Range
<1>9. ASSUME NEW t \in Request \ {s}
      PROVE  Last(block_table'[s]) \notin Range(block_table'[t])
  BY <1>5, <1>7 DEF Range
<1> QED
  BY <1>8, <1>9

(***************************************************************************)
(* When may_append returns, no other page table and no free queue entry    *)
(* names the block of the new token: what copy_on_write is for.            *)
(***************************************************************************)
THEOREM WritesAlwaysExclusive == Spec => WritesExclusive
<1>1. ManagerInv => EntriesNotFree
  BY EntriesInUse
<1>2. ManagerInv /\ ManagerInv' /\ EntriesNotFree' /\ CacheInv /\ [Next]_vars
        => [\A s \in Request :
              op = "may_append" /\ cur = s /\ placed'[s] =>
                LET b == Last(block_table'[s])
                IN /\ b \notin Range(free_block_ids')
                   /\ \A t \in Request \ {s} : b \notin Range(block_table'[t])]_vars
  BY MayAppendWrites
<1> QED
  BY <1>1, <1>2, ManagerInvariant, CacheInvariant, PTL DEF Spec, WritesExclusive

-----------------------------------------------------------------------------
(* Labels of blocks in use.                                                *)

LEMMA LabelElsewhere ==
  ASSUME TypeOK, NEW c \in BlockId, NEW h, NEW tokens, Label(c, h, tokens),
         ref_count[c] = 0 \/ block_hash[c] = NoHash
  PROVE  \A b \in BlockId : ref_count[b] > 0 /\ block_hash[b] # NoHash
           => block_hash'[b] = block_hash[b]
<1>1. \A b \in BlockId \ {c} : block_hash'[b] = block_hash[b]
  BY LabelEffect
<1> QED
  BY <1>1

LEMMA LabelsKept ==
  ASSUME ManagerInv, CacheInv, [Next]_vars, BlocksDeterminePrefix'
  PROVE  \A b \in BlockId : ref_count[b] > 0 /\ block_hash[b] # NoHash
           => block_hash'[b] = block_hash[b]
<1>1. TypeInv /\ TypeOK /\ PoolInv
  BY DEF ManagerInv, TypeInv
<1>2. op = "allocate" => free_block_ids # <<>>
  <2> SUFFICES ASSUME op = "allocate" PROVE free_block_ids # <<>>
    OBVIOUS
  <2>1. cur \in Request /\ block_table[cur] \in Seq(BlockId) /\ free_block_ids \in Seq(BlockId)
    BY <1>1, BlockManagerAssumption DEF TypeOK
  <2>2. num_blocks(cur) \in Nat /\ Len(block_table[cur]) \in Nat /\ Len(free_block_ids) \in Nat
    BY <1>1, <2>1, NumBlocksPositive, LenProperties
  <2> QED
    BY <1>1, <2>1, <2>2, EmptySeq DEF TypeInv, MethodHasRoom
<1>3. op = "swap_in" => free_block_ids # <<>>
  <2> SUFFICES ASSUME op = "swap_in" PROVE free_block_ids # <<>>
    OBVIOUS
  <2>1. /\ cur \in Request
        /\ block_table[cur] \in Seq(BlockId) /\ cpu_block_table[cur] \in Seq(CpuBlockId)
        /\ free_block_ids \in Seq(BlockId)
    BY <1>1, BlockManagerAssumption DEF TypeOK
  <2>2. /\ Len(block_table[cur]) \in Nat /\ Len(cpu_block_table[cur]) \in Nat
        /\ Len(free_block_ids) \in Nat
    BY <2>1, LenProperties
  <2> QED
    BY <1>1, <2>1, <2>2, EmptySeq DEF TypeInv, MethodHasRoom
<1>4. CASE AllocateShared
  BY <1>1, <1>4, AllocateSharedCache
<1>5. CASE AllocateMiss
  <2>1. Head(free_block_ids) \in BlockId /\ ref_count[Head(free_block_ids)] = 0
    BY <1>1, <1>2, <1>5, HeadUncounted DEF AllocateMiss
  <2> QED
    BY <1>1, <1>5, <2>1, LabelElsewhere DEF AllocateMiss, AddToTable
<1>6. CASE AllocateRevived
  <2>1. hash_to_block_id[NextHash] \in BlockId /\ hash_to_block_id[NextHash] \notin used_block_ids
    BY <1>1, <1>6 DEF AllocateRevived, CacheHit, TypeOK
  <2>2. ref_count[hash_to_block_id[NextHash]] = 0
    BY <1>1, <2>1, FreeHasNoCount
  <2> QED
    BY <1>1, <1>6, <2>1, <2>2, LabelElsewhere DEF AllocateRevived, AddToTable
<1>7. CASE SwapInStep
  <2>1. Head(free_block_ids) \in BlockId /\ ref_count[Head(free_block_ids)] = 0
    BY <1>1, <1>3, <1>7, HeadUncounted DEF SwapInStep
  <2> QED
    BY <1>1, <1>7, <2>1, LabelElsewhere DEF SwapInStep
<1>8. CASE \E s \in Request : CopyOnWrite(s)
  <2>1. PICK s \in Request : CopyOnWrite(s)
    BY <1>8
  <2>2. CASE UNCHANGED cacheVars
    BY <2>2 DEF cacheVars
  <2>3. CASE /\ free_block_ids # <<>>
             /\ Label(Head(free_block_ids), block_hash[last_block(s)],
                      block_token_ids[last_block(s)])
    <3>1. Head(free_block_ids) \in BlockId /\ ref_count[Head(free_block_ids)] = 0
      BY <1>1, <2>3, HeadUncounted
    <3> QED
      BY <1>1, <2>3, <3>1, LabelElsewhere
  <2> QED
    BY <2>1, <2>2, <2>3 DEF CopyOnWrite
<1>9. CASE AppendNewBlock
  <2>1. Head(free_block_ids) \in BlockId /\ ref_count[Head(free_block_ids)] = 0
    BY <1>1, <1>9, HeadUncounted DEF AppendNewBlock
  <2> QED
    BY <1>1, <1>9, <2>1, LabelElsewhere DEF AppendNewBlock
<1>10. CASE AppendFillsBlock
  <2>1. PICK s \in Request : s = cur
    BY <1>1, <1>10, BlockManagerAssumption DEF TypeOK, AppendFillsBlock, Appending
  <2>2. last_block(s) \in BlockId
    <3>1. op # "swap_out" /\ op = "may_append"
      BY <1>10 DEF AppendFillsBlock, Appending
    <3>2. \E n \in Nat \ {0} : n = Len(block_table[s])
      BY <1>1, <2>1, <3>1, AppendPosition DEF ManagerInv
    <3> QED
      BY <1>1, <3>1, <3>2, LastHeld
  <2>3. block_hash[last_block(s)] = NoHash
    BY <1>10, <2>1 DEF AppendFillsBlock
  <2>4. \E h, tokens : Label(last_block(s), h, tokens)
    BY <1>10, <2>1 DEF AppendFillsBlock
  <2> QED
    BY <1>1, <2>2, <2>3, <2>4, LabelElsewhere
<1>11. ASSUME ~AllocateStep, ~SwapInStep, ~ \E s \in Request : CopyOnWrite(s),
              ~AppendNewBlock, ~AppendFillsBlock
       PROVE  block_hash' = block_hash
  BY <1>11
  DEF Next, Stopped, vars, cacheVars, NewSequence, append_token, RecordComputed,
      BeginAllocate, BeginFinish, Preempt, BeginSwapIn, DeallocateStep, SwapOutStep,
      AppendStep, AppendInside, AppendRaises, Raise
<1> QED
  BY <1>4, <1>5, <1>6, <1>7, <1>8, <1>9, <1>10, <1>11 DEF AllocateStep

(***************************************************************************)
(* A block that stays in use keeps its label, as long as contents          *)
(* determine prefixes: its content is never replaced under its readers.    *)
(***************************************************************************)
THEOREM UsedLabelsNeverChange == Spec => UsedLabelsStable
<1>1. ManagerInv /\ CacheInv /\ [Next]_vars
        => [BlocksDeterminePrefix' =>
              \A b \in BlockId :
                ref_count[b] > 0 /\ ref_count'[b] > 0 /\ block_hash[b] # NoHash
                  => block_hash'[b] = block_hash[b]]_vars
  BY LabelsKept
<1> QED
  BY <1>1, ManagerInvariant, CacheInvariant, PTL DEF Spec, UsedLabelsStable

=============================================================================
