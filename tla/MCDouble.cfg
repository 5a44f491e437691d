CONSTANTS
  Parts = {"values", "branches", "memory"}
  BitsPerByte = 1
  WordBytes = 4
  MaxBytes = 4
  Half = 2
  Addresses = 4
  Location = 2
SPECIFICATION MCSpec
CHECK_DEADLOCK FALSE
INVARIANTS WholesKept SameOutcome SameEffect
