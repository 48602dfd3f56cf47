CONSTANTS
  Actions <- VipUndo
  Messages = {m1}
  Senders = {s1}
  NoSender = NoSender
  Pollers = {p1, p2}
  NoPoller = NoPoller
  Planted = TRUE
  WebDuplicates = FALSE
  DiskFails = FALSE
  MaxRules = 1
  MaxPuts = 1
  MaxGen = 1
  MaxFails = 1
  MaxCrashes = 1
SPECIFICATION FairSpec
CHECK_DEADLOCK FALSE
INVARIANT TypeOK
INVARIANT LastActionHolds
PROPERTY FoldersEmptied
