\* two nodes, one of them joined at the start, and two connections or other changes
CONSTANTS
  Nodes = {a, b}
  Codes = {k}
  Members = {a}
  Ways = {1, 2}
  Slots = {1, 2}
  LIFETIME = 1
  TTL = 1
  RENEW = 0
  MaxTime = 2
  MaxChanges = 2
  a = a
  b = b
  k = k
SPECIFICATION FairSpec
INVARIANTS EveryoneWatched OneWayIn
PROPERTIES RevokedShutOut LinksDecided
CHECK_DEADLOCK FALSE
