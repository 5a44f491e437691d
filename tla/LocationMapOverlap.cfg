SPECIFICATION MCSpec
CONSTANTS
  N = 5
  Offsets = {0, 1, 2, 3, 4}
  MaxPass = 1
  MaxRound = 3
  Steps = 5
  Parts = {"ranges"}
CHECK_DEADLOCK FALSE
INVARIANT RangesAreDisjoint
