CONSTANTS
  Messages = {m1}
  NoMessage = NoMessage
  Sweepers = {s1, s2}
  NoSweeper = NoSweeper
  Engines = {e1}
  Settings <- TwoSettings
  Start = {"review"}
  There = {TRUE}
  Starting = {TRUE}
  Chunk = 1
  MaxDay = 1
  MaxChanges = 2
  MaxMishaps = 1
  MaxRuns = 0
  CountSweeps = FALSE
SPECIFICATION FairSpec
CHECK_DEADLOCK FALSE
PROPERTY OldAreSwept
