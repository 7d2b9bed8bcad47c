--------------------------- MODULE MCBlockManager ---------------------------
(***************************************************************************)
(* Small instances of BlockManager.  Tokens are numbers; the prompts of a  *)
(* family share prefixes, so that the prefix cache hits.                   *)
(***************************************************************************)
EXTENDS BlockManager

Symmetry == Permutations(Request)

\* Blocks of three tokens: a first block with one, two or three tokens, that
\* block and a third of the next, and two blocks behind another first block.
PromptsThree ==
  {<<1>>, <<1, 1>>, <<1, 1, 2>>, <<1, 1, 2, 1>>, <<2, 1, 2, 1, 1, 2>>}

=============================================================================
