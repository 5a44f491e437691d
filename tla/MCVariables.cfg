SPECIFICATION MCSpec
CONSTANTS
  Loops = 3
  MaxEdits = 1
  Parts = {"ranges", "pairs", "highs", "merge"}
CHECK_DEADLOCK FALSE
INVARIANTS CoversExact NoInternalIntersection CachesHold MergesSucceed ReadsKept
