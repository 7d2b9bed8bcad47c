---------------------------- MODULE MCLLMEngine -----------------------------
(***************************************************************************)
(* Small instances of WorkerBatch, with the invariant of KvContent: the    *)
(* prompts share prefixes, and the pool is too small for all requests to   *)
(* grow to their full length.                                              *)
(***************************************************************************)
EXTENDS WorkerBatch, KvContent

PromptsMixed == {<<1>>, <<1, 2>>, <<1, 2, 2>>}

\* Of one, two and three blocks.  The first two can be swapped out, the last is
\* dropped when it is evicted, the CPU pool being too small for it; 3 also ends
\* a sequence.
PromptsThree == {<<3, 1>>, <<3, 1, 1>>, <<1, 1, 3, 1, 1>>}

\* One, two and four chunks of two tokens, with prefixes in common; the last
\* outgrows a pool of four blocks.
PromptsLong == {<<1, 2>>, <<1, 2, 2>>, <<1, 2, 2, 2, 1, 1, 2>>}

Symmetry == Permutations(Request)

=============================================================================
