CONSTANTS
  r1 = r1
  r2 = r2
  r3 = r3
  x1 = x1
  x2 = x2
  w1 = w1
  w2 = w2
  s1 = s1
  s2 = s2
  Requests = {r1, r2}
  Sessions = {x1, x2}
  Sites = {w1}
  SiteOf <- OneSite
  Payloads = {"plain", "wide_event"}
  Shards = {s1}
  ShardOf <- OneShard
  ShardCap = 2
  MaxBatch = 2
  Faults = {}
SPECIFICATION Spec
INVARIANT ZeroDroppedEvents
CHECK_DEADLOCK FALSE
