CONSTANTS
  a = a
  b = b
  rule = rule
  review = review
  vip = vip
  Folders = {a, b}
  Nested = nested
  Under = {a}
  INBOX = INBOX
  NoFolder = NoFolder
  Gone = Gone
  Rules = {rule}
  Fixed = {review}
  Actions = {vip}
  Review = review
  Boots <- Shared
  MaxSentinels = 3
  Main = Main
  Recs = {r1}
  Healers = {h1}
  MaxActs = 2
  MaxFaults = 1
SPECIFICATION FairSpec
CHECK_DEADLOCK FALSE
INVARIANT TypeOK
INVARIANT Guarded
INVARIANT LeftAlone
PROPERTY Heals
