SPECIFICATION FairSpec
CONSTANTS
  a1 = a1  a2 = a2  a3 = a3  c1 = c1  c2 = c2
  CloseLink = CloseLink
  App = {a1, a2, a3}
  Cluster = {c1, c2}
  Column = {0, 1}
  MasterRank = 0
  Home <- Homes
  Via <- Vias
  Data <- Program
INVARIANTS TypeOK NoUnexpectedEOF NothingLeftBehind FinalizeIsCollective
PROPERTIES EverybodyStops
