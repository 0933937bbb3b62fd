SPECIFICATION Spec
CONSTANTS
  a1 = a1  a2 = a2  a3 = a3  c1 = c1  c2 = c2
  App = {a1, a2, a3}
  Cluster = {c1, c2}
  Home <- Homes
  World <- WorldOrder
  Splits <- Interleaving
  Groups <- SomeGroups
  MaxComms = 5
  MaxOps = 1
INVARIANTS ClusterIndexCorrect
