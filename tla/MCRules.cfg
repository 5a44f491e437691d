CONSTANTS
  Parts = {"arith", "bits", "merges", "compare", "late"}
  BitsPerByte = 2
  WordBytes = 3
  MaxBytes = 4
SPECIFICATION MCSpec
CHECK_DEADLOCK FALSE
INVARIANTS FragmentsKept MasksHold EqualPairsAreEqual
