CONSTANTS
  Parts = {"rules", "numbers", "inputs"}
  BitsPerByte = 2
  WordBytes = 2
  MaxBytes = 4
SPECIFICATION MCSpec
CHECK_DEADLOCK FALSE
INVARIANTS QuotientsKept DivisorsExact RecoveryIsExact
