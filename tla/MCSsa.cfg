SPECIFICATION MCSpec
CONSTANTS
  N = 5
  Offsets = {0, 1, 2, 3, 4}
  MaxPass = 1
  MaxRound = 3
  Steps = 5
  Parts = {"loops", "merges", "ranges", "heritage"}
CHECK_DEADLOCK FALSE
INVARIANTS FlowAnalysed MergesPlaced ReadsLinked
 
