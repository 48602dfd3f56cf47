CONSTANTS
  Actions <- VipBlock
  Messages = {m1, m2}
  Senders = {s1}
  NoSender = NoSender
  Pollers = {p1, p2}
  NoPoller = NoPoller
  Planted = TRUE
  WebDuplicates = FALSE
  DiskFails = FALSE
  MaxRules = 1
  MaxPuts = 1
  MaxGen = 1
  MaxFails = 1
  MaxCrashes = 0
SPECIFICATION Spec
CHECK_DEADLOCK FALSE
SYMMETRY Symmetry
INVARIANT OneRulePerSender
INVARIANT NothingMovedUnread
INVARIANT SuccessIsTrue
