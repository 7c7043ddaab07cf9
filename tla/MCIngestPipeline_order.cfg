CONSTANTS
  r1 = r1
  r2 = r2
  r3 = r3
  x1 = x1
  x2 = x2
  w1 = w1
  w2 = w2
  s1 = s1
  s2 = s2
  Requests = {r1, r2, r3}
  Sessions = {x1}
  Sites = {w1}
  SiteOf <- OneSiteOneSession
  Payloads = {"plain", "wide_session"}
  Shards = {s1}
  ShardOf <- OneShardOneSession
  ShardCap = 2
  MaxBatch = 2
  Faults = {"begin", "evict", "restart"}
SPECIFICATION Spec
SYMMETRY RequestSymmetry
INVARIANTS ClaimExplained OrphanExplained SessionOrder
PROPERTY DeliveryRefined
CHECK_DEADLOCK FALSE
