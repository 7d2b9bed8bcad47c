---------------------------- MODULE EagerDecode -----------------------------
(***************************************************************************)
(* What a decode step promises (ModelRunner.run with is_prefill = False in *)
(* prism_infer/engine/model_runner.py, as it runs when CUDA graphs are     *)
(* disabled): every sequence of the batch has the keys and values of its   *)
(* last token stored in its slot and attends to the slots of all its       *)
(* tokens, and nothing else in the cache changes.                          *)
(*                                                                         *)
(* The keys and values of a token are abstracted to the token and its      *)
(* position.  A row of the model that is fed something else is fed another *)
(* token or position or attends to other slots, and each of the three      *)
(* shows in what this module keeps.                                        *)
(***************************************************************************)
EXTENDS Integers, Sequences

CONSTANTS
  BlockSize,      \* kvcache_block_size
  NumKvBlocks,    \* num_kvcache_blocks; blocks and slots are numbered from 0
  MaxNumSeqs,     \* the values of max_num_seqs to consider
  Token,
  Batches,        \* the decode batches the scheduler may hand over
  PrefillSlots    \* the slots that are written between decode steps

Slots == 0 .. NumKvBlocks * BlockSize - 1
BlockId == 0 .. NumKvBlocks - 1

\* A sequence as decode sees it: last_token, num_tokens and block_table.
Decoding == [last_token : Token, num_tokens : Nat \ {0}, block_table : Seq(BlockId)]

\* The slot of the token at position p.
SlotOf(s, p) == s.block_table[1 + p \div BlockSize] * BlockSize + (p % BlockSize)

\* Every token has a block, and no two rows store into one slot.
LegalBatch(batch) ==
  /\ batch \in Seq(Decoding)
  /\ batch # <<>>
  /\ \A i \in DOMAIN batch :
       LET s == batch[i]
       IN /\ \A p \in 0 .. s.num_tokens - 1 : 1 + p \div BlockSize \in DOMAIN s.block_table
          /\ Len(s.block_table) = 1 + (s.num_tokens - 1) \div BlockSize
  /\ \A i, j \in DOMAIN batch :
       SlotOf(batch[i], batch[i].num_tokens - 1) = SlotOf(batch[j], batch[j].num_tokens - 1)
         => i = j

ASSUME DecodeAssumption ==
  /\ BlockSize \in Nat \ {0}
  /\ NumKvBlocks \in Nat \ {0}
  /\ MaxNumSeqs \subseteq Nat \ {0}
  /\ 0 \notin Token
  /\ PrefillSlots \subseteq Slots
  /\ \A batch \in Batches : LegalBatch(batch)

VARIABLES
  kv_cache,       \* content of every slot
  outputs,        \* what each sequence of the last batch computed
  max_num_seqs    \* the configured value

eagerVars == <<kv_cache, outputs, max_num_seqs>>

\* The content of a slot that no request wrote.
NoKv == <<0, 0>>

Keys(s) == <<s.last_token, s.num_tokens - 1>>

\* store_kvcache
StoredFor(batch) ==
  [slot \in Slots |->
     IF \E i \in DOMAIN batch : SlotOf(batch[i], batch[i].num_tokens - 1) = slot
     THEN Keys(batch[CHOOSE i \in DOMAIN batch :
                       SlotOf(batch[i], batch[i].num_tokens - 1) = slot])
     ELSE kv_cache[slot]]

\* Attention over the cache kv: what is fed and what is attended to.
Attended(kv, s) ==
  <<Keys(s), [p \in 0 .. s.num_tokens - 1 |-> kv[SlotOf(s, p)]]>>

EagerInit ==
  /\ kv_cache = [slot \in Slots |-> NoKv]
  /\ outputs = <<>>
  /\ max_num_seqs \in MaxNumSeqs

EagerStep(batch) ==
  /\ Len(batch) <= max_num_seqs
  /\ kv_cache' = StoredFor(batch)
  /\ outputs' = [i \in DOMAIN batch |-> Attended(kv_cache', batch[i])]
  /\ UNCHANGED max_num_seqs

\* Between decode steps, prefills and copies write slots.
OtherWrite ==
  /\ \E slot \in PrefillSlots, t \in Token :
       kv_cache' = [kv_cache EXCEPT ![slot] = <<t, slot % BlockSize>>]
  /\ UNCHANGED <<outputs, max_num_seqs>>

EagerNext == OtherWrite \/ \E batch \in Batches : EagerStep(batch)

EagerSpec == EagerInit /\ [][EagerNext]_eagerVars

=============================================================================
