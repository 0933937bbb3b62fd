SPECIFICATION Spec
CONSTANTS
  c1 = c1  c2 = c2  c3 = c3  k1 = k1  k2 = k2  a1 = a1  a2 = a2  a3 = a3
  Cluster = {c1, c2, c3}
  Column = {k1}
  App = {a1, a2, a3}
  Comm = {w}
  Tag = {t1}
  AnySource = AnySource
  AnyTag = AnyTag
  Home <- EachItsCluster
  Via <- OneColumn
  StreamCount = 1
  MaxPendingDataMsg = 1
  MaxReceiveSequence = 2
  MaxReadSequence = 2
  WireCapacity = 1
  MaxSent <- SendersOfTwoClusters
INVARIANTS NoLossNoDuplication
PROPERTIES Implements
SYMMETRY NameSymmetry
CONSTRAINT OnlyA2Receives
