CONSTANTS
  Messages = {m1, m2}
  NoMessage = NoMessage
  Sweepers = {s1}
  NoSweeper = NoSweeper
  Engines = {e1}
  Settings <- TwoSettings
  Start = {"inbox", "review"}
  There = {TRUE}
  Starting = {FALSE}
  Chunk = 1
  MaxDay = 1
  MaxChanges = 1
  MaxMishaps = 1
  MaxRuns = 2
  CountSweeps = TRUE
SPECIFICATION Spec
CHECK_DEADLOCK FALSE
SYMMETRY MessageSymmetry
INVARIANT TypeOK
INVARIANT RowsAreTrue
INVARIANT CountersTellTheLog
INVARIANT PreviewIsKept
PROPERTY OnlyAged
PROPERTY CancelStops
