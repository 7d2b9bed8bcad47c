------------------------------ MODULE Sharding ------------------------------
(***************************************************************************)
(* Loading one parameter of a tensor-parallel model: the constructors and  *)
(* weight loaders of prism_infer/layers/linear.py and embed_head.py, called *)
(* by load_model of utils/loader.py on every rank.                         *)
(*                                                                         *)
(* The checkpoint has a weight for every shard of the parameter (q, k and  *)
(* v of the merged qkv weight, gate and up, or the only one), which comes  *)
(* in any order, since the files of the checkpoint are listed in any       *)
(* order, or not at all.  Only the dimension that is divided among the     *)
(* ranks matters: a weight is its rows 0, 1, ... along tp_dim, and a row of *)
(* the parameter is Empty (torch.empty) or <<shard, row>>.                 *)
(***************************************************************************)
EXTENDS Integers, Sequences, FiniteSets, FiniteSetsExt

CONSTANTS
  Configs,    \* the parameters to consider: [kind, tp_size, sizes, head_size]
  Empty

Kinds == {"column", "merged", "qkv", "row", "row bias", "vocab", "replicated"}

ASSUME ShardingAssumption ==
  /\ \A c \in Configs :
       /\ c.kind \in Kinds
       /\ c.tp_size \in Nat \ {0}
       /\ c.sizes \in Seq(Nat \ {0})
       /\ c.sizes # <<>>
       /\ c.head_size \in Nat \ {0}
       /\ c.kind \notin {"merged", "qkv"} => Len(c.sizes) = 1
       /\ c.kind = "qkv" =>
            /\ Len(c.sizes) = 3
            /\ c.sizes[2] = c.sizes[3]
            /\ \A s \in 1 .. 3 : c.sizes[s] % c.head_size = 0
  /\ Empty \notin Nat \X Nat

VARIABLES
  config,
  present,    \* the shards that the checkpoint has
  param,      \* the rows of the parameter on each rank, <<>> before its constructor
  loaded,     \* the shards that each rank has loaded
  failed      \* the ranks that an exception ended

shardingVars == <<config, present, param, loaded, failed>>

tp_size == config.tp_size
sizes == config.sizes
Ranks == 0 .. tp_size - 1
Shards == DOMAIN sizes

\* Shards with a weight_loader that takes a shard id.
Packed == config.kind \in {"merged", "qkv"}

\* The parameter is whole on every rank.
Whole == config.kind \in {"row bias", "replicated"}

Interval(start, length) == start .. start + length - 1

-----------------------------------------------------------------------------
(* Constructors.                                                           *)

SumUpTo(n) == MapThenSumSet(LAMBDA s : sizes[s], 1 .. n)

OutputSize == SumUpTo(Len(sizes))

Heads(s) == sizes[s] \div config.head_size

\* Fault: QKVParallelLinear does not divide the numbers of heads.
DividesSum == Whole \/ OutputSize % tp_size = 0

\* The assertions of divide and VocabParallelEmbedding.
Divides ==
  /\ Whole \/ OutputSize % tp_size = 0
  /\ config.kind = "qkv" => \A s \in Shards : Heads(s) % tp_size = 0

param_size == IF Whole THEN OutputSize ELSE OutputSize \div tp_size

Construct(r) ==
  /\ r \notin failed
  /\ param[r] = <<>>
  /\ \/ /\ Divides
        /\ param' = [param EXCEPT ![r] = [i \in 0 .. param_size - 1 |-> Empty]]
        /\ UNCHANGED failed
     \/ /\ ~Divides
        /\ failed' = failed \cup {r}
        /\ UNCHANGED param
  /\ UNCHANGED <<config, present, loaded>>

-----------------------------------------------------------------------------
(* Weight loaders.                                                         *)

CeilDiv(m, n) == (m + n - 1) \div n

\* loaded_weight.chunk(tp_size, tp_dim)[r]; {} if there are too few pieces.
ChunkOf(size, tp, r) ==
  {i \in Interval(r * CeilDiv(size, tp), CeilDiv(size, tp)) : i < size}

\* Fault: ranks are counted from 1.
SliceShifted(length, r) == Interval((r + 1) * length, length)

\* loaded_weight.narrow(tp_dim, r * length, length)
SliceOf(length, r) == Interval(r * length, length)

\* Fault: the ranks take each other's slice.
SourceReversed(s, r) ==
  IF Whole THEN 0 .. sizes[s] - 1
  ELSE IF Packed THEN ChunkOf(sizes[s], tp_size, tp_size - 1 - r)
  ELSE SliceOf(param_size, r)

\* The rows of shard s that rank r copies.
Source(s, r) ==
  IF Whole THEN 0 .. sizes[s] - 1
  ELSE IF Packed THEN ChunkOf(sizes[s], tp_size, r)
  ELSE SliceOf(param_size, r)

\* Fault: v is put where k is.
OffsetSame(s) ==
  IF config.kind = "merged" THEN SumUpTo(s - 1) \div tp_size
  ELSE IF s = 1 THEN 0 ELSE (Heads(1) \div tp_size) * config.head_size

\* Where shard s starts in the parameter of a rank, and how many rows it has.
shard_offset(s) ==
  CASE config.kind = "merged" -> SumUpTo(s - 1) \div tp_size
    [] config.kind = "qkv" ->
         MapThenSumSet(LAMBDA t : (Heads(t) \div tp_size) * config.head_size, 1 .. s - 1)
    [] OTHER -> 0

shard_size(s) ==
  CASE config.kind = "merged" -> sizes[s] \div tp_size
    [] config.kind = "qkv" -> (Heads(s) \div tp_size) * config.head_size
    [] OTHER -> param_size

\* copy_ wants as many rows as there are, or a single one for all.
Copies(source, n) == source # {} /\ Cardinality(source) \in {1, n}

\* param.size(1), for a bias with tp_dim = 1, is an IndexError.
LoaderRaises(s, r) == config.kind = "row bias" \/ ~Copies(Source(s, r), shard_size(s))

\* One weight of the loop of load_model.
Load(r, s) ==
  /\ r \notin failed
  /\ param[r] # <<>>
  /\ s \in present \ loaded[r]
  /\ \/ /\ LoaderRaises(s, r)
        /\ failed' = failed \cup {r}
        /\ UNCHANGED <<param, loaded>>
     \/ /\ ~LoaderRaises(s, r)
        /\ LET source == Source(s, r)
               row(k) == IF Cardinality(source) = 1 THEN Min(source) ELSE Min(source) + k
           IN param' = [param EXCEPT ![r] =
                          [i \in DOMAIN @ |->
                             IF i \in Interval(shard_offset(s), shard_size(s))
                             THEN <<s, row(i - shard_offset(s))>> ELSE @[i]]]
        /\ loaded' = [loaded EXCEPT ![r] = @ \cup {s}]
        /\ UNCHANGED failed
  /\ UNCHANGED <<config, present>>

-----------------------------------------------------------------------------
(* The vocabulary in use: VocabParallelEmbedding and ParallelLMHead.       *)

vocab_start_idx(r) == param_size * r

\* The ranks that do not mask the token out, and the row each rank looks up.
Unmasked(x) == {r \in Ranks : x \in Interval(vocab_start_idx(r), param_size)}

LocalIndex(x, r) == IF r \in Unmasked(x) THEN x - vocab_start_idx(r) ELSE 0

\* all_reduce: the sum of the rows that are not masked.
Embedded(x) == {param[r][LocalIndex(x, r)] : r \in Unmasked(x)}

\* gather and cat on rank 0: the row that gives logit number x.
LogitRow(x) == param[x \div param_size][x % param_size]

-----------------------------------------------------------------------------
ShardingInit ==
  /\ config \in Configs
  /\ present \in SUBSET Shards
  /\ param = [r \in Ranks |-> <<>>]
  /\ loaded = [r \in Ranks |-> {}]
  /\ failed = {}

ShardingNext == \E r \in Ranks : Construct(r) \/ \E s \in Shards : Load(r, s)

ShardingSpec == ShardingInit /\ [][ShardingNext]_shardingVars

-----------------------------------------------------------------------------
(* Properties.                                                             *)

(***************************************************************************)
(* A row of the parameter is uninitialised or a row of a shard the rank    *)
(* has loaded.                                                             *)
(***************************************************************************)
ShardingTypeOK ==
  /\ config \in Configs
  /\ present \subseteq Shards
  /\ failed \subseteq Ranks
  /\ DOMAIN param = Ranks /\ DOMAIN loaded = Ranks
  /\ \A r \in Ranks :
       /\ loaded[r] \subseteq present
       /\ \A i \in DOMAIN param[r] :
            \/ param[r][i] = Empty
            \/ param[r][i][1] \in loaded[r] /\ param[r][i][2] \in 0 .. sizes[param[r][i][1]] - 1

\* The ranks that load_model returned on.
Complete == {r \in Ranks \ failed : param[r] # <<>> /\ loaded[r] = present}

RowsHeld(r, s) == {i \in 0 .. sizes[s] - 1 : \E j \in DOMAIN param[r] : param[r][j] = <<s, i>>}

(***************************************************************************)
(* When every rank has loaded the checkpoint, each row of each shard in it *)
(* is on exactly one rank, in one place (on every rank, if the parameter   *)
(* is not divided), and a row is left uninitialised only if its shard was  *)
(* missing, which load_model does not notice.                              *)
(***************************************************************************)
EachRowOnce ==
  Complete = Ranks =>
    /\ \A s \in present : \A i \in 0 .. sizes[s] - 1 :
         LET places == {at \in Ranks \X (0 .. param_size - 1) : param[at[1]][at[2]] = <<s, i>>}
         IN Cardinality(places) = IF Whole THEN tp_size ELSE 1
    /\ present = Shards => \A r \in Ranks : \A j \in DOMAIN param[r] : param[r][j] # Empty

(***************************************************************************)
(* The divided layers compose without communication.  On each rank, the    *)
(* rows of a shard are in order and after those of the shards before it;   *)
(* the outputs of a column-parallel layer are the inputs that a            *)
(* row-parallel layer of that size takes on the same rank; a query head    *)
(* finds the key head and the value head of its group at the place where   *)
(* grouped attention looks for it; and a token is embedded by one rank,    *)
(* with its own row, which is also the row of its logit.                   *)
(***************************************************************************)
ShardsCompose ==
  Complete = Ranks /\ present = Shards /\ ~Whole =>
    \A r \in Ranks :
      /\ \A i, j \in DOMAIN param[r] :
           i < j => \/ param[r][i][1] < param[r][j][1]
                    \/ param[r][i][1] = param[r][j][1] /\ param[r][i][2] < param[r][j][2]
      /\ \A s \in Shards : RowsHeld(r, s) = SliceOf(sizes[s] \div tp_size, r)
      /\ config.kind = "qkv" =>
           LET head(s, k) ==   \* the head that is k-th on the rank
                 param[r][shard_offset(s) + k * config.head_size][2] \div config.head_size
               group == Heads(1) \div Heads(2)
           IN Heads(1) % Heads(2) = 0 =>
                \A k \in 0 .. Heads(1) \div tp_size - 1, s \in {2, 3} :
                  head(s, k \div group) = head(1, k) \div group
      /\ config.kind = "vocab" =>
           \A x \in 0 .. sizes[1] - 1 :
             /\ LocalIndex(x, r) \in DOMAIN param[r]
             /\ Cardinality(Unmasked(x)) = 1
             /\ Embedded(x) = {<<1, x>>} /\ LogitRow(x) = <<1, x>>

(***************************************************************************)
(* The model loads on all ranks exactly if tp_size divides every weight of *)
(* the parameter, and every number of heads.  For merged weights this is   *)
(* more than divide asserts; and a bias of a RowParallelLinear never loads.*)
(***************************************************************************)
LoadsExactly ==
  LET loadable == /\ config.kind # "row bias"
                  /\ Whole \/ \A s \in Shards : sizes[s] % tp_size = 0
                  /\ config.kind = "qkv" => \A s \in Shards : Heads(s) % tp_size = 0
  IN /\ loadable => failed = {}
     /\ present = Shards /\ Complete \cup failed = Ranks /\ failed = {} => loadable

=============================================================================
