SPECIFICATION LibrarySpec
CONSTANTS
  Header = 2
  Lengths = {2, 3, 5}
  Capacity = 3
  MaxMessages = 3
  MaxPendingMsg = 2
  MaxPendingSize = 6
  Width = 2
  ClusterOf <- FourInThree
  Coordinates = {0, 1}
  Locations = {0, 1, 2}
  my_pid = 1
  MAX_GROUPS = 5
  CommMembers <- MembersOfComms
  Ranges <- SomeRanges
  Objects <- SomeObjects
  DerivedTypes = 2
  MAX_OPERATIONS = 14
  MAX_FILES = 2
  MAX_INFOS = 1
  BasicTypes = {1}
  m1 = m1  m2 = m2  m3 = m3
  Nodes = {1, 2, 3, 4}
  Messages = {m1, m2, m3}
  Patterns <- SomePatterns
  ClusterCount = 3
  GatewayCount = 2
  Streams = 2
  Backlog = 2
  Jobs = {0, 1, 2, 3}
  File <- Files
  Arguments <- CommandLines
  Port = 7000
  Addressless = {}
INVARIANTS PendingSizeExact ReductionIsStandard GroupsSound HandlesResolve StartsConnected
PROPERTIES StreamOfMessages AllDelivered QueueIsSequence 
CHECK_DEADLOCK FALSE
