SPECIFICATION FairSpec
CONSTANTS
  c1 = c1  c2 = c2  c3 = c3  k1 = k1  k2 = k2  a1 = a1  a2 = a2  a3 = a3
  Cluster = {c1, c2}
  Column = {k1}
  App = {a1, a2}
  Comm = {w}
  Tag = {t1, t2}
  AnySource = AnySource
  AnyTag = AnyTag
  Home <- TwoHomes
  Via <- OneColumn
  StreamCount = 1
  MaxPendingDataMsg = 1
  MaxReceiveSequence = 2
  MaxReadSequence = 2
  WireCapacity = 1
  MaxSent <- BothSend
PROPERTIES ReceiveCompletes GatewaysDeliver
CONSTRAINT OnlyA2Receives
