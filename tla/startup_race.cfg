SPECIFICATION FairStartup
CONSTANTS
  ClusterCount = 3
  GatewayCount = 1
  Streams = 1
  Backlog = 2
  Jobs = {0, 1, 2, 3}
  File <- Files
  Arguments <- NoArguments
  Port = 7000
  Addressless = {}
INVARIANT StartsConnected
CHECK_DEADLOCK FALSE
