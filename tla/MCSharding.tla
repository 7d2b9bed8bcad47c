----------------------------- MODULE MCSharding -----------------------------
(***************************************************************************)
(* Small instances of Sharding: every kind of layer on one to four ranks,  *)
(* with sizes that can and cannot be divided.                              *)
(***************************************************************************)
EXTENDS Sharding

Config(kind, tp, s, h) == [kind |-> kind, tp_size |-> tp, sizes |-> s, head_size |-> h]

MCConfigs ==
  {Config(kind, tp, <<n>>, 1) :
     kind \in Kinds \ {"merged", "qkv"}, tp \in 1 .. 4, n \in 1 .. 8}
  \cup {Config("merged", tp, <<m, n>>, 1) : tp \in 1 .. 3, m \in 1 .. 6, n \in 1 .. 6}
  \cup {Config("qkv", tp, <<q * h, kv * h, kv * h>>, h) :
          tp \in 1 .. 2, q \in 1 .. 4, kv \in 1 .. 4, h \in 1 .. 2}

=============================================================================
