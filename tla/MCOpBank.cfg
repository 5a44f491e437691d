CONSTANTS
  MaxOrder = 31
  Gap = 8
  MaxLen = 5
  Ops = {o1, o2, o3, o4}
  Blocks = {bb}
SYMMETRY Symmetry
SPECIFICATION MCSpec
INVARIANTS OrderKept BankAgrees MarkersPlaced
