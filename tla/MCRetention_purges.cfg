CONSTANTS
  e1 = e1
  e2 = e2
  x1 = x1
  w1 = w1
  task = task
  admin = admin
  user = user
  reset = reset
  Sites = {w1}
  Sessions = {x1}
  Events = {e1, e2}
  SiteOf <- OneSite
  SessionOf <- OneSession
  Born <- OldAndYoung
  DataEvents = {e1}
  OnPath = {e1}
  Jobs = {task, admin, user, reset}
  KindOf <- OneOfEach
  Days <- SomeDays
  DefaultDays = 2
  LastDay = 2
  MaxTrouble = 2
  Faults = {"fetch", "data", "events", "sessions", "log", "begin", "statement",
            "commit", "full", "evict", "restart"}
SPECIFICATION FairSpec
INVARIANTS OrphanExplained DataExplained LogConserves
PROPERTIES PurgeJustified OverduePurged
CHECK_DEADLOCK FALSE
