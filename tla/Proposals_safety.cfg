CONSTANTS
  k1 = k1
  k2 = k2
  r1 = r1
  Keys = {k1, k2}
  Anyone = Anyone
  To <- TwoKeys
  Dests = {a, b}
  NoDest = NoDest
  NoKey = NoKey
  ResurfaceAt = 2
  WebCriteria <- SomeCriteria
  MaxRules = 3
  MaxOrder = 1
  MaxSignals = 3
  MaxEdits = 2
  MaxCrashes = 1
SPECIFICATION Spec
CHECK_DEADLOCK FALSE
SYMMETRY DestSymmetry
INVARIANT TypeOK
INVARIANT NoTwins
PROPERTY KeepsMessages
INVARIANT Resurfaces
INVARIANT DominantIsRight
