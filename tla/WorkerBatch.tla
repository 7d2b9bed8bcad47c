----------------------------- MODULE WorkerBatch ----------------------------
(***************************************************************************)
(* The batch that the other GPUs compute: with tensor parallelism, rank 0  *)
(* pickles the scheduled sequences for the workers                         *)
(* (Sequence.__getstate__ and __setstate__ in prism_infer/engine/          *)
(* sequence.py), and every rank prepares the batch from its own copy       *)
(* (ModelRunner.run, prepare_prefill and prepare_decode).                  *)
(***************************************************************************)
EXTENDS LLMEngine

\* Fault: num_cached_tokens is not sent.
PickledUncached(s) ==
  IF num_completion_tokens(s) = 0
  THEN [num_tokens |-> SeqLen(s), num_cached_tokens |-> 0,
        block_table |-> block_table[s], token_ids |-> token_ids[s]]
  ELSE [num_tokens |-> SeqLen(s), num_cached_tokens |-> 0,
        block_table |-> block_table[s], last_token |-> Last(token_ids[s])]

(***************************************************************************)
(* The copy that a worker has of sequence s.  Its fields are the           *)
(* attributes that __setstate__ assigns: the tokens only if none of them   *)
(* was sampled, otherwise the last one; neither seq_id nor                 *)
(* num_computed_tokens.                                                    *)
(***************************************************************************)
Pickled(s) ==
  IF num_completion_tokens(s) = 0
  THEN [num_tokens |-> SeqLen(s), num_cached_tokens |-> num_cached_tokens[s],
        block_table |-> block_table[s], token_ids |-> token_ids[s]]
  ELSE [num_tokens |-> SeqLen(s), num_cached_tokens |-> num_cached_tokens[s],
        block_table |-> block_table[s], last_token |-> Last(token_ids[s])]

\* The attributes that run and the prepare methods read beside the common ones.
Needed ==
  IF ~is_prefill THEN {"last_token"}
  ELSE IF EnableChunkedPrefill THEN {"seq_id", "num_computed_tokens", "token_ids"}
  ELSE {"token_ids"}

\* A worker ends with an AttributeError; rank 0 goes on to wait for it in NCCL.
WorkerFails == \E s \in Batch : ~(Needed \subseteq DOMAIN Pickled(s))

\* input_ids, positions and slot_mapping of one sequence, on a worker.
WorkerRows(s) ==
  LET copy == Pickled(s)
      blocks == copy.num_cached_tokens \div BlockSize
      slot(n) == <<copy.block_table[1 + blocks + n \div BlockSize], 1 + (n % BlockSize)>>
      used == (copy.num_tokens + BlockSize - 1) \div BlockSize
  IN IF is_prefill
     THEN {<<copy.token_ids[p], p, slot(p - copy.num_cached_tokens - 1)>> :
             p \in copy.num_cached_tokens + 1 .. copy.num_tokens}
     ELSE {<<copy.last_token, copy.num_tokens,
             <<Last(copy.block_table), copy.num_tokens - (used - 1) * BlockSize>>>>}

\* The same on rank 0.
OwnRows(s) ==
  {<<token_ids[s][p], p, IF is_prefill THEN PrefillSlot(s, p) ELSE DecodeSlot(s)>> :
     p \in Queries(s)}

(***************************************************************************)
(* The comment above loop, that the workers call run and perform the same  *)
(* operations, as far as the code bears it out: they prepare the same      *)
(* rows, except that they cannot prepare a prefill batch that is chunked,  *)
(* or in which a sequence has sampled tokens because it was dropped and    *)
(* starts over.  Then they end with an exception, and rank 0 waits for     *)
(* them for ever (CallsReturn of module WorkerRPC).                        *)
(***************************************************************************)
WorkersPrepareSame ==
  Calling("run") /\ SlotsMatchQueries =>
    /\ WorkerFails <=>
         /\ is_prefill
         /\ EnableChunkedPrefill \/ \E s \in Batch : num_completion_tokens(s) > 0
    /\ ~WorkerFails => \A s \in Batch : WorkerRows(s) = OwnRows(s)

=============================================================================
