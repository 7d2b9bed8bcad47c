SPECIFICATION FairRpc
CONSTANTS
  Worker = {w1, w2}
  MaxCalls = 3
CHECK_DEADLOCK FALSE
INVARIANTS
  RpcTypeOK
  FollowUnlessOverrun
  CollectivesFlush
PROPERTIES
  CallsReturn
  CallsReachWorkers
