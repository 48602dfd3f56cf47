CONSTANTS
  Flows = {f1, f2, f3}
  NoFlow = NoFlow
  Ops = {o1}
  MinBackoff = 3
  MaxBackoff = 4
  MaxNoops = 1
  MaxLeaked = 1
SPECIFICATION Spec
SYMMETRY FlowSymmetry
CHECK_DEADLOCK FALSE
INVARIANT HandshakeSelfHeals
