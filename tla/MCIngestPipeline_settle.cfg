CONSTANTS
  r1 = r1
  r2 = r2
  r3 = r3
  x1 = x1
  x2 = x2
  w1 = w1
  w2 = w2
  s1 = s1
  s2 = s2
  Requests = {r1, r2}
  Sessions = {x1, x2}
  Sites = {w1}
  SiteOf <- OneSite
  Payloads = {"plain", "sale", "wide_event"}
  Shards = {s1, s2}
  ShardOf <- ShardEach
  ShardCap = 1
  MaxBatch = 2
  Faults = {"begin", "statement", "commit", "lookup", "restart", "evict"}
SPECIFICATION FairSpec
INVARIANTS EventComplete Accounted
PROPERTIES NoRevival AnsweredSettles
CHECK_DEADLOCK FALSE
