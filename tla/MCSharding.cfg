SPECIFICATION ShardingSpec
CONSTANTS
  Configs <- MCConfigs
  Empty = Empty
CHECK_DEADLOCK FALSE
INVARIANTS
  ShardingTypeOK
  EachRowOnce
  ShardsCompose
  LoadsExactly
