SPECIFICATION FairSpec
CONSTANTS
  l1 = l1
  r1 = r1
  t1 = t1
  t2 = t2
  v1 = v1
  v2 = v2
  v3 = v3
  Local = {l1}
  Remote = {r1}
  Tag = {t1, t2}
  AnySource = AnySource
  AnyTag = AnyTag
  Asks <- EachKind
  Var = {v1, v2, v3}
  Lists <- Arrays
  MaxRequests = 2
  FlagPassed = {0, 1}
  MaxReceives = 2
  MaxSends = 1
  Traffic <- Sendings
  MaxSent = 2
INVARIANTS TypeOK HandlesOwned NoLossNoDuplication CompletionSound
PROPERTY WaitReturns
CHECK_DEADLOCK FALSE
