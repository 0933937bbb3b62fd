SPECIFICATION FairSpec
CONSTANTS
  ClusterCount = 3
  ClusterOf <- ThreeOfFour
  Programs <- AllPrograms
  All = All
INVARIANTS TypeOK CollectiveResults BarrierHolds LocalCallsMatch NothingLeft
PROPERTY CollectivesComplete
