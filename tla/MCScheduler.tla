---------------------------- MODULE MCScheduler -----------------------------
(***************************************************************************)
(* Small instances of Scheduler: two or three requests that compete for a  *)
(* pool of three or four blocks of two tokens.                             *)
(***************************************************************************)
EXTENDS Scheduler

\* The first prompt leaves room in its last block, the others fill theirs.
PromptsMixed == {<<1>>, <<1, 2>>, <<1, 2, 3>>}

\* One, two and four chunks of two tokens; the last outgrows a pool of four
\* blocks.
PromptsLong == {<<1, 2>>, <<1, 2, 2>>, <<1, 2, 2, 2, 1, 1, 2>>}

\* Full blocks under two different prefixes.
PromptsAlias == {<<1, 1, 2, 2>>, <<3, 3, 2, 2>>}

\* A full block that several requests have in common.
PromptsShared == {<<1, 2>>}

Symmetry == Permutations(Request)

=============================================================================
