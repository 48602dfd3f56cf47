CONSTANTS
  Flows = {f1, f2}
  NoFlow = NoFlow
  Ops = {o1}
  MinBackoff = 2
  MaxBackoff = 2
  MaxNoops = 1
  MaxLeaked = 1
SPECIFICATION FairSpec
CHECK_DEADLOCK FALSE
INVARIANT TypeOK
INVARIANT NeverStranded
INVARIANT FlowsAreHeard
INVARIANT DisconnectIsFinal
PROPERTY Reconnects
