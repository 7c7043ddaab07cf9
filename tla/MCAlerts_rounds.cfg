CONSTANTS
  a1 = a1
  Rules = {a1}
  Cooldown <- Cooldown1
  ComparisonOf <- Below1
  Values = {0, 1}
  AlertPeriod = 1
  RetentionPeriod = 2
  MaxFaults = 1
  LastMinute = 2
  Faults = {"fetch", "query", "webhook", "history", "stamp", "restart"}
SPECIFICATION FairSpec
INVARIANTS CooldownKept HistoryHonest AlarmExplained DisabledSilent
PROPERTY BreachNoticed
CHECK_DEADLOCK FALSE
