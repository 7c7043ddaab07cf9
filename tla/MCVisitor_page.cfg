CONSTANTS
  home = home
  mobile = mobile
  a = a
  b = b
  Addresses = {home, mobile}
  Identities = {"ann"}
  Pages = {a, b}
  Calls = {"sale", "error", "identify"}
  FirstTick = 1
  LastTick = 3
  MonthEnd = 2
  CloudMode = TRUE
  CollectFaults = {"statement", "link", "wipe"}
  MaxEffort = 5
  BeforeSend = TRUE
SPECIFICATION Spec
SYMMETRY PlaceSymmetry
INVARIANTS VisitBounded SessionExplained DeletedExplained AnswerHonest ReportExact
CHECK_DEADLOCK FALSE
