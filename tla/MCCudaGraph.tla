---------------------------- MODULE MCCudaGraph -----------------------------
(***************************************************************************)
(* A small instance of CudaGraph: graphs of one, two and four rows, and    *)
(* batches of up to five sequences, each with a last block of its own.     *)
(***************************************************************************)
EXTENDS CudaGraph

Sequence(t, n, table) == [last_token |-> t, num_tokens |-> n, block_table |-> table]

\* Block 1 is used by one sequence after the other, block 5 is a prefix that
\* several have; the last sequence has outgrown MaxModelLen.
Pool ==
  <<Sequence(1, 1, <<0>>), Sequence(2, 1, <<1>>), Sequence(1, 1, <<1>>),
    Sequence(1, 3, <<5, 2>>), Sequence(2, 2, <<3>>), Sequence(2, 1, <<4>>),
    Sequence(1, 5, <<5, 1, 4>>)>>

\* One batch too wide, and two of each length up to four, in which stale rows of
\* the one would write what the other has stored.
MCBatches ==
  {[i \in DOMAIN rows |-> Pool[rows[i]]] :
     rows \in {<<7>>, <<1>>, <<3>>, <<1, 2>>, <<3, 4>>, <<5, 4, 2>>, <<3, 5, 6>>,
               <<1, 2, 4, 5>>, <<6, 5, 4, 3>>, <<1, 3, 4, 5, 6>>}}

=============================================================================
