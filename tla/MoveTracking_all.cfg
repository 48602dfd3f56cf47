CONSTANTS
  Messages = {m1}
  DeepScans = {d1}
  NoEntry = NoEntry
  MaxUid = 3
  MaxMishaps = 1
SPECIFICATION FairSpec
CHECK_DEADLOCK FALSE
INVARIANT TypeOK
INVARIANT SignalsAreUsers
INVARIANT OneSignalPerMove
PROPERTY OtherMovesSignalled
