SPECIFICATION FairSpec
CONSTANTS
  ClusterCount = 2
  ClusterOf <- Reversed
  Programs <- BarrierOnly
  All = All
PROPERTY CollectivesComplete
CHECK_DEADLOCK FALSE
