CONSTANTS
  MaxUid = 2
  MaxCrashes = 1
  Calls = {c1, c2}
  CursorEnabled = TRUE
SPECIFICATION FairSpec
CHECK_DEADLOCK FALSE
INVARIANT TypeOK
INVARIANT NothingPassedOver
PROPERTY OncePerBoot
PROPERTY FetchGetsAll
PROPERTY KeepsPromise
