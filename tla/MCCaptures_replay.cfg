CONSTANTS
  left = left
  right = right
  early = early
  later = later
  none = none
  home = home
  shop = shop
  Tabs = {left, right}
  Visits = {early, later}
  NoToken = none
  Sizes = {1, 2, 3}
  SnapshotSizes = {1, 3}
  PayloadLimit = 2
  FlushCount = 2
  MaxDuration = 1
  LastTick = 3
  MaxEffort = 5
  Urls = {home, shop}
  Depths = {20, 50, 80}
  QueueLimit = 2
  MaxMoves = 4
SPECIFICATION Spec
SYMMETRY TabSymmetry
INVARIANTS ReplayFaithful NothingDropped ScrollHonest
CHECK_DEADLOCK FALSE
